---- MODULE Spec2Model ----
(***************************************************************************)
(* A state-machine model of the index engine: the per-date lock manager    *)
(* (lock_manager.py), the dependency-tracked StateStore (statestore.py),   *)
(* the MarketData change registry (marketdata.py), the trading calendar    *)
(* (schedule.py) and the recursive compute_state of EqualWeightStrategy    *)
(* (rule.py).                                                              *)
(*                                                                         *)
(* Every thread owns a call stack of frames.  A frame is one activation of *)
(* compute_state, StateStore.get/_get_unsafe, put/_put_unsafe, invalidate, *)
(* clear or MarketData.update; its pc names the next statement that reads  *)
(* or writes shared state (the dicts _cache and _dependencies, the price   *)
(* table, the updated-dates registry, a lock).  One action is one such     *)
(* statement: the interpreter may switch threads between any two of them.  *)
(* Statements that touch only locals or the immutable calendar are folded  *)
(* into the shared-state statement that precedes them.  A critical section *)
(* of MarketData's own lock (a read of a close, the copy of the registry,  *)
(* the write of update with its registry entry) is one step.               *)
(*                                                                         *)
(* set_lock_manager (rule.py:56-71) replaces the store made at             *)
(* construction by a new one and registers the new store's invalidate as   *)
(* a further callback.  The replaced store is never written again, so its  *)
(* callback sweeps an empty dict; the model keeps the one store in use and *)
(* its callback.                                                           *)
(*                                                                         *)
(* todo, ret, log, pre, execs and fresh record which calls are made and   *)
(* what they did; no step of a call depends on them.                       *)
(***************************************************************************)
EXTENDS Integers, Sequences, FiniteSets, TLC

VARIABLES
    lm,            \* strategy._lock_manager is set (rule.py:48,67)
    md,            \* MarketData._data: date -> ticker -> close
    upd,           \* MarketData._updated_dates
    cache,         \* StateStore._cache: date -> state
    deps,          \* StateStore._dependencies: date -> set of (date, ticker)
    dateLocks,     \* ThreadingLockManager._date_locks: date -> holder of its Lock
    invLock,       \* holder of ThreadingLockManager._invalidation_lock
    internalLock,  \* holder of StateStore._internal_lock
    stack,         \* per thread: the call stack, innermost frame last
    todo,          \* per thread: top-level calls the thread may still issue
    ret,           \* per thread: outcome of its last finished top-level call
    log,           \* per thread: its last two finished top-level calls, oldest first
    pre,           \* per thread: the shared state when its current/last call began (if it runs alone)
    execs,         \* per date: how often compute_state got past the cache check
    fresh,         \* per date: the first state compute_state returned since the last update
    caller,        \* per thread: the state and the set object it passed to its last put
    iso,           \* several strategies: their stores, the MarketData instances and callback lists
                   \* (SpecIso); a second store that no call touches (SpecTwice)
    limit          \* sys.getrecursionlimit(), counted in nested compute_state calls

vars == <<lm, md, upd, cache, deps, dateLocks, invLock, internalLock,
          stack, todo, ret, log, pre, execs, fresh, caller, iso, limit>>

-----------------------------------------------------------------------------
(* Bounds of the model and the fixed scenario data.                         *)

LastKey == 4            \* the last date of the calendar
MaxPrice == 2           \* closes range over 1..MaxPrice
MaxOps == 3             \* top-level calls of the single thread of the sequential runs

Seed == 1               \* strategy.seed_date

\* the dates of the price table: two before the seed date, then the seed
\* date and the dates after it
Calendar == (Seed - 2)..LastKey
Keys == Calendar
Fields == {"A", "B"}    \* tickers of the price table
Basket == <<"A">>       \* strategy.basket (a list of tickers)
Prices == 1..MaxPrice
Threads == {"t1", "t2", "t3"}
Free == "free"
\* the recursion limit the interpreter starts with (1000): more nested calls
\* than the calendar has dates
DefaultLimit == LastKey - Seed + 4

NoFn == <<>>            \* the empty dict

Min(S) == CHOOSE x \in S : \A y \in S : x <= y
Max(S) == CHOOSE x \in S : \A y \in S : x >= y

DictSet(f, k, v) == [x \in (DOMAIN f) \cup {k} |-> IF x = k THEN v ELSE f[x]]
DictDel(f, k) == [x \in (DOMAIN f) \ {k} |-> f[x]]

-----------------------------------------------------------------------------
(* schedule.py                                                              *)

HasPrev(k) == \E c \in Calendar : c < k
\* a calendar whose prev returns the date it is given
PrevSame(k) == k
\* schedule.py:23-42: the latest date before k
Prev(k) == Max({c \in Calendar : c < k})
HasNext(k) == \E c \in Calendar : c > k
NextDate(k) == Min({c \in Calendar : c > k})
\* dates 2m-1 and 2m form month m (dates -1 and 0 are in month 0)
Month(k) == (k + 1) \div 2
IsLastDayOfMonth(k) == Month(k) # Month(NextDate(k))

-----------------------------------------------------------------------------
(* rule.py: the states.  The transition formula (returns, portfolio return, *)
(* index level, drifted or rebalanced weights) is a deterministic function  *)
(* of the previous state, of the closes read at the date and at its         *)
(* predecessor, and of the month-end test; the engine never looks inside a  *)
(* state.  A state is therefore kept as the term the formula is applied to: *)
(* the sequence, from the seed on, of what each step read.  Two states are  *)
(* equal exactly when they were computed from the same reads.               *)

InitialState == <<>>
StepState(prev_state, px, ppx, rebalance) ==
    Append(prev_state, [cur |-> px, prev |-> ppx, rebalance |-> rebalance])

-----------------------------------------------------------------------------
(* Outcomes of a call, and frames.                                          *)

Pending == [kind |-> "pending", val |-> <<>>]
None == [kind |-> "none", val |-> <<>>]
Val(r) == [kind |-> "val", val |-> r]
Raise(e) == [kind |-> e, val |-> <<>>]
IsError(o) == o.kind \notin {"pending", "none", "val"}

Frame(op, key, lk, pc) ==
    [op |-> op, key |-> key, lk |-> lk, pc |-> pc, r |-> <<>>, d |-> {},
     snap |-> {}, n |-> 0, px |-> <<>>, ppx |-> <<>>, out |-> Pending,
     results |-> <<>>]

\* the statement a call starts with: creating/fetching the date lock,
\* acquiring the invalidation or internal lock, or the body itself
FirstPc(lk, body) ==
    IF lk = "date" THEN "getlock" ELSE IF lk = "none" THEN body ELSE "acq"

BodyPc(op) ==
    CASE op = "get" -> "g_in"
      [] op = "put" -> "p_cache"
      [] op = "invalidate" -> "i_iter"
      [] op = "clear" -> "cl_cache"
      [] OTHER -> "body"

GetFrame(k, lk) == Frame("get", k, lk, FirstPc(lk, "g_in"))
PutFrame(k, r, d, lk) ==
    [Frame("put", k, lk, FirstPc(lk, "p_cache")) EXCEPT !.r = r, !.d = d]
InvalidateFrame(x, lk) == Frame("invalidate", x, lk, FirstPc(lk, "i_iter"))
ClearFrame == Frame("clear", 0, "internal", "acq")

Top(t) == stack[t][Len(stack[t])]
Below(t) == SubSeq(stack[t], 1, Len(stack[t]) - 1)
Idle(t) == stack[t] = <<>>
At(t, op, pc) == ~Idle(t) /\ Top(t).op = op /\ Top(t).pc = pc

-----------------------------------------------------------------------------
(* Control flow: what a caller does with the outcome of the call it made.   *)

\* the engine calling the store's public, locking get and put
EngineStoreLkPublic == IF lm THEN "date" ELSE "internal"

\* rule.py:127-130,147-150,201-204: under a lock manager the engine holds the
\* date lock and calls _get_unsafe/_put_unsafe; without one it calls get/put,
\* which take the store's internal lock
EngineStoreLk == IF lm THEN "none" ELSE "internal"
\* statestore.py:57-62,92-97: the lock of the public get and put
PublicStoreLk == IF lm THEN "date" ELSE "internal"
\* an invalidate under the lock of the date it is given
InvalidateLkDate == IF lm THEN "date" ELSE "internal"
\* statestore.py:120-125: the lock of invalidate
InvalidateLk == IF lm THEN "inv" ELSE "internal"

\* the frames a call consists of once its lock (if any) is held
Enter(fr) ==
    IF fr.op = "compute"
    THEN <<[fr EXCEPT !.pc = "w_get"], GetFrame(fr.key, EngineStoreLk)>>
    ELSE <<[fr EXCEPT !.pc = BodyPc(fr.op)]>>

\* compute_state without the date lock
ComputeFramesUnlocked(k) == Enter(Frame("compute", k, "none", "w_get"))

\* rule.py:113-117: compute_state(date)
ComputeFrames(k) ==
    IF lm THEN <<Frame("compute", k, "date", "getlock")>>
    ELSE Enter(Frame("compute", k, "none", "w_get"))

\* the seed's entry depending on the seed's own closes
SeedDependenciesOfSeed == {<<Seed, Basket[n]>> : n \in 1..Len(Basket)}

\* rule.py:135,145: at the seed date the set declared at function scope is
\* still empty when it is passed to put
SeedDependencies == {}

\* The caller frame c gets outcome o from its callee.  done: c itself returns
\* (with out); otherwise c continues as frames.  miss: the dates whose
\* computation got past the cache check.
Resume(c, o) ==
    IF IsError(o) THEN [done |-> TRUE, out |-> o, frames |-> <<>>, miss |-> {}]
    ELSE IF c.op = "compute" /\ c.pc = "w_get" THEN
        IF o.kind = "val"
        THEN \* rule.py:131-132
             [done |-> TRUE, out |-> o, frames |-> <<>>, miss |-> {}]
        ELSE IF c.key = Seed
        THEN \* rule.py:137-150
             [done |-> FALSE, out |-> Pending, miss |-> {c.key},
              frames |-> <<[c EXCEPT !.pc = "w_put", !.r = InitialState,
                                     !.d = SeedDependencies],
                           PutFrame(c.key, InitialState, SeedDependencies,
                                    EngineStoreLk)>>]
        ELSE \* rule.py:154
             [done |-> FALSE, out |-> Pending, miss |-> {c.key},
              frames |-> <<[c EXCEPT !.pc = "prev"]>>]
    ELSE IF c.op = "compute" /\ c.pc = "w_prev" THEN
        \* rule.py:160-169
        [done |-> FALSE, out |-> Pending, miss |-> {},
         frames |-> <<[c EXCEPT !.pc = "rd_cur", !.r = o.val, !.n = 1,
                                !.d = {}, !.px = <<>>, !.ppx = <<>>]>>]
    ELSE IF c.op = "compute" /\ c.pc = "w_put" THEN
        \* rule.py:151,205
        [done |-> TRUE, out |-> Val(c.r), frames |-> <<>>, miss |-> {}]
    ELSE IF c.op = "get_states" THEN
        \* runner.py:21-24: the state is stored under current_date, and the
        \* comprehension goes on
        [done |-> FALSE, out |-> Pending, miss |-> {},
         frames |-> <<[c EXCEPT !.pc = "gs_next",
                                !.results = Append(c.results,
                                                   [date |-> c.n, state |-> o.val])]>>]
    ELSE \* marketdata.py:118-119: the callbacks are done, update returns
        [done |-> TRUE, out |-> None, frames |-> <<>>, miss |-> {}]

\* callers whose lock is not released when an exception passes through them
RECURSIVE UnwindNoFinally(_, _)
UnwindNoFinally(stk, o) ==
    IF stk = <<>> THEN [stk |-> <<>>, out |-> o, miss |-> {}]
    ELSE LET c == stk[Len(stk)]
             rest == SubSeq(stk, 1, Len(stk) - 1)
             res == Resume(c, o)
         IN IF ~res.done
            THEN [stk |-> rest \o res.frames, out |-> Pending, miss |-> res.miss]
            ELSE IF c.lk = "none" \/ IsError(res.out)
            THEN UnwindNoFinally(rest, res.out)
            ELSE [stk |-> Append(rest, [c EXCEPT !.pc = "exit", !.out = res.out]),
                  out |-> Pending, miss |-> {}]

\* A frame above stk has returned o: resume the callers, as far as they
\* return in turn without having a lock to release.
RECURSIVE Unwind(_, _)
Unwind(stk, o) ==
    IF stk = <<>> THEN [stk |-> <<>>, out |-> o, miss |-> {}]
    ELSE LET c == stk[Len(stk)]
             rest == SubSeq(stk, 1, Len(stk) - 1)
             res == Resume(c, o)
         IN IF ~res.done
            THEN [stk |-> rest \o res.frames, out |-> Pending, miss |-> res.miss]
            ELSE IF c.lk = "none"
            THEN Unwind(rest, res.out)
            ELSE [stk |-> Append(rest, [c EXCEPT !.pc = "exit", !.out = res.out]),
                  out |-> Pending, miss |-> {}]

LogEntry(t, o) == [op |-> stack[t][1].op, key |-> stack[t][1].key, out |-> o]
Last2(s) == IF Len(s) <= 2 THEN s ELSE SubSeq(s, Len(s) - 1, Len(s))

\* The frame on top of stk has returned o (its lock, if any, is released).
Finish(t, stk, o) ==
    LET u == Unwind(stk, o) IN
    /\ stack' = [stack EXCEPT ![t] = u.stk]
    /\ execs' = [k \in Keys |-> IF k \in u.miss THEN execs[k] + 1 ELSE execs[k]]
    /\ IF u.stk = <<>>
       THEN /\ ret' = [ret EXCEPT ![t] = u.out]
            /\ log' = [log EXCEPT ![t] = Last2(Append(log[t], LogEntry(t, u.out)))]
            /\ fresh' = IF stack[t][1].op = "compute" /\ u.out.kind = "val"
                           /\ ~fresh[stack[t][1].key].has
                        THEN [fresh EXCEPT ![stack[t][1].key] =
                                  [has |-> TRUE, val |-> u.out.val]]
                        ELSE fresh
       ELSE UNCHANGED <<ret, log, fresh>>

\* The top frame's body ends with outcome o: with a lock to release it goes
\* to its exit, without one it returns at once.
Return(t, o) ==
    IF Top(t).lk = "none"
    THEN Finish(t, Below(t), o)
    ELSE /\ stack' = [stack EXCEPT ![t] =
                         Append(Below(t), [Top(t) EXCEPT !.pc = "exit", !.out = o])]
         /\ UNCHANGED <<execs, ret, log, fresh>>

\* the top frame moves on to pc, with its locals changed to fr
Goto(t, fr, pc) ==
    /\ stack' = [stack EXCEPT ![t] = Append(Below(t), [fr EXCEPT !.pc = pc])]
    /\ UNCHANGED <<execs, ret, log, fresh>>

\* the shared state as a call begins; it is recorded for a thread that runs
\* alone (no other thread has a call running or still to issue)
Alone(t) == \A u \in Threads \ {t} : Idle(u) /\ todo[u] = 0
NoSnapshot == [ok |-> FALSE, cache |-> NoFn, deps |-> NoFn, upd |-> {}, execs |-> <<>>, md |-> <<>>]
Snapshot(t) ==
    IF Alone(t)
    THEN [ok |-> TRUE, cache |-> cache, deps |-> deps, upd |-> upd, execs |-> execs, md |-> md]
    ELSE NoSnapshot

\* a thread with nothing running issues a top-level call
Begin(t, frames) ==
    /\ Idle(t)
    /\ todo[t] > 0
    /\ todo' = [todo EXCEPT ![t] = todo[t] - 1]
    /\ stack' = [stack EXCEPT ![t] = frames]
    /\ pre' = [pre EXCEPT ![t] = Snapshot(t)]
    /\ ret' = [ret EXCEPT ![t] = Pending]

-----------------------------------------------------------------------------
(* Top-level calls.                                                         *)

\* rule.py:89-117
CallComputeState(t, k) ==
    /\ Begin(t, ComputeFrames(k))
    /\ UNCHANGED <<lm, iso, limit, caller, md, upd, cache, deps, dateLocks, invLock, internalLock,
                   log, execs, fresh>>

\* statestore.py:44-62
CallGet(t, k) ==
    /\ Begin(t, <<GetFrame(k, PublicStoreLk)>>)
    /\ UNCHANGED <<lm, iso, limit, caller, md, upd, cache, deps, dateLocks, invLock, internalLock,
                   log, execs, fresh>>

\* statestore.py:80-97
CallPut(t, k, r, d) ==
    /\ Begin(t, <<PutFrame(k, r, d, PublicStoreLk)>>)
    /\ UNCHANGED <<lm, iso, limit, caller, md, upd, cache, deps, dateLocks, invLock, internalLock,
                   log, execs, fresh>>

\* statestore.py:107-125
CallInvalidate(t, x) ==
    /\ Begin(t, <<InvalidateFrame(x, InvalidateLk)>>)
    /\ UNCHANGED <<lm, iso, limit, caller, md, upd, cache, deps, dateLocks, invLock, internalLock,
                   log, execs, fresh>>

\* statestore.py:167-175
CallClear(t) ==
    /\ Begin(t, <<ClearFrame>>)
    /\ UNCHANGED <<lm, iso, limit, caller, md, upd, cache, deps, dateLocks, invLock, internalLock,
                   log, execs, fresh>>

\* an update whose date replaces the registry
CallUpdateReplacing(t, x, f, v) ==
    /\ Begin(t, <<Frame("update", x, "none", "w_cb"), InvalidateFrame(x, InvalidateLk)>>)
    /\ md' = [md EXCEPT ![x][f] = v]
    /\ upd' = {x}
    /\ fresh' = [k \in Keys |-> [has |-> FALSE, val |-> <<>>]]
    /\ UNCHANGED <<lm, iso, limit, caller, cache, deps, dateLocks, invLock, internalLock, log, execs>>

\* marketdata.py:89-119.  The write, the registry entry and the copy of the
\* callback list are one critical section of md's lock, which every reader of
\* the table and of the registry takes too; the callback (the store's
\* invalidate, rule.py:54,71) runs after it, outside md's lock.
CallUpdate(t, x, f, v) ==
    /\ Begin(t, <<Frame("update", x, "none", "w_cb"), InvalidateFrame(x, InvalidateLk)>>)
    /\ md' = [md EXCEPT ![x][f] = v]
    /\ upd' = upd \cup {x}
    /\ fresh' = [k \in Keys |-> [has |-> FALSE, val |-> <<>>]]
    /\ UNCHANGED <<lm, iso, limit, caller, cache, deps, dateLocks, invLock, internalLock, log, execs>>

\* marketdata.py:145-152
CallClearUpdatedDates(t) ==
    /\ Idle(t)
    /\ todo[t] > 0
    /\ todo' = [todo EXCEPT ![t] = todo[t] - 1]
    /\ upd' = {}
    /\ pre' = [pre EXCEPT ![t] = Snapshot(t)]
    /\ ret' = [ret EXCEPT ![t] = None]
    /\ log' = [log EXCEPT ![t] =
                  Last2(Append(log[t], [op |-> "clear_updated_dates", key |-> 0, out |-> None]))]
    /\ UNCHANGED <<lm, iso, limit, caller, md, cache, deps, dateLocks, invLock, internalLock, stack,
                   execs, fresh>>

-----------------------------------------------------------------------------
(* lock_manager.py, and the store's internal lock.                          *)

\* a lock manager that makes a new Lock at every reference of a date
DateLockAlwaysCreate(t) ==
    /\ ~Idle(t)
    /\ Top(t).pc = "getlock"
    /\ dateLocks' = DictSet(dateLocks, Top(t).key, Free)
    /\ Goto(t, Top(t), "acq")
    /\ UNCHANGED <<lm, iso, limit, caller, md, upd, cache, deps, invLock, internalLock, todo, pre>>

\* lock_manager.py:58-62: under _date_locks_lock, create the date's Lock if
\* there is none
DateLockGetOrCreate(t) ==
    /\ ~Idle(t)
    /\ Top(t).pc = "getlock"
    /\ dateLocks' = IF Top(t).key \in DOMAIN dateLocks THEN dateLocks
                    ELSE DictSet(dateLocks, Top(t).key, Free)
    /\ Goto(t, Top(t), "acq")
    /\ UNCHANGED <<lm, iso, limit, caller, md, upd, cache, deps, invLock, internalLock, todo, pre>>

\* an acquire that does not wait for the holder
AcquireDateLockNoWait(t) ==
    /\ ~Idle(t)
    /\ Top(t).pc = "acq"
    /\ Top(t).lk = "date"
    /\ dateLocks' = [dateLocks EXCEPT ![Top(t).key] = t]
    /\ stack' = [stack EXCEPT ![t] = Below(t) \o Enter(Top(t))]
    /\ UNCHANGED <<lm, iso, limit, caller, md, upd, cache, deps, invLock, internalLock, todo, ret,
                   log, pre, execs, fresh>>

\* lock_manager.py:64-65: date_lock.acquire() blocks while the lock is held
AcquireDateLock(t) ==
    /\ ~Idle(t)
    /\ Top(t).pc = "acq"
    /\ Top(t).lk = "date"
    /\ dateLocks[Top(t).key] = Free
    /\ dateLocks' = [dateLocks EXCEPT ![Top(t).key] = t]
    /\ stack' = [stack EXCEPT ![t] = Below(t) \o Enter(Top(t))]
    /\ UNCHANGED <<lm, iso, limit, caller, md, upd, cache, deps, invLock, internalLock, todo, ret,
                   log, pre, execs, fresh>>

\* an acquire of the invalidation lock that does not wait for the holder
AcquireInvalidationLockNoWait(t) ==
    /\ ~Idle(t)
    /\ Top(t).pc = "acq"
    /\ Top(t).lk = "inv"
    /\ invLock' = t
    /\ stack' = [stack EXCEPT ![t] = Below(t) \o Enter(Top(t))]
    /\ UNCHANGED <<lm, iso, limit, caller, md, upd, cache, deps, dateLocks, internalLock, todo, ret,
                   log, pre, execs, fresh>>

\* lock_manager.py:87: self._invalidation_lock.acquire()
AcquireInvalidationLock(t) ==
    /\ ~Idle(t)
    /\ Top(t).pc = "acq"
    /\ Top(t).lk = "inv"
    /\ invLock = Free
    /\ invLock' = t
    /\ stack' = [stack EXCEPT ![t] = Below(t) \o Enter(Top(t))]
    /\ UNCHANGED <<lm, iso, limit, caller, md, upd, cache, deps, dateLocks, internalLock, todo, ret,
                   log, pre, execs, fresh>>

\* an internal lock that does not exclude a second thread
AcquireInternalLockNoWait(t) ==
    /\ ~Idle(t)
    /\ Top(t).pc = "acq"
    /\ Top(t).lk = "internal"
    /\ internalLock' = t
    /\ stack' = [stack EXCEPT ![t] = Below(t) \o Enter(Top(t))]
    /\ UNCHANGED <<lm, iso, limit, caller, md, upd, cache, deps, dateLocks, invLock, todo, ret,
                   log, pre, execs, fresh>>

\* statestore.py:61,96,124,173: with self._internal_lock (an RLock; no call
\* path takes it twice)
AcquireInternalLock(t) ==
    /\ ~Idle(t)
    /\ Top(t).pc = "acq"
    /\ Top(t).lk = "internal"
    /\ internalLock = Free
    /\ internalLock' = t
    /\ stack' = [stack EXCEPT ![t] = Below(t) \o Enter(Top(t))]
    /\ UNCHANGED <<lm, iso, limit, caller, md, upd, cache, deps, dateLocks, invLock, todo, ret,
                   log, pre, execs, fresh>>

\* lock_manager.py:66-69 (finally: date_lock.release()), 88-91, and the end
\* of a with block: the lock is released on return and on exception alike,
\* and the outcome goes to the caller
\* a return that leaves the date lock held
ReleaseDateLockLeak(t) ==
    /\ ~Idle(t)
    /\ Top(t).pc = "exit"
    /\ Top(t).lk = "date"
    /\ dateLocks' = dateLocks
    /\ Finish(t, Below(t), Top(t).out)
    /\ UNCHANGED <<lm, iso, limit, caller, md, upd, cache, deps, invLock, internalLock, todo, pre>>

ReleaseDateLock(t) ==
    /\ ~Idle(t)
    /\ Top(t).pc = "exit"
    /\ Top(t).lk = "date"
    /\ dateLocks' = [dateLocks EXCEPT ![Top(t).key] = Free]
    /\ Finish(t, Below(t), Top(t).out)
    /\ UNCHANGED <<lm, iso, limit, caller, md, upd, cache, deps, invLock, internalLock, todo, pre>>

ReleaseInvalidationLock(t) ==
    /\ ~Idle(t)
    /\ Top(t).pc = "exit"
    /\ Top(t).lk = "inv"
    /\ invLock' = Free
    /\ Finish(t, Below(t), Top(t).out)
    /\ UNCHANGED <<lm, iso, limit, caller, md, upd, cache, deps, dateLocks, internalLock, todo, pre>>

ReleaseInternalLock(t) ==
    /\ ~Idle(t)
    /\ Top(t).pc = "exit"
    /\ Top(t).lk = "internal"
    /\ internalLock' = Free
    /\ Finish(t, Below(t), Top(t).out)
    /\ UNCHANGED <<lm, iso, limit, caller, md, upd, cache, deps, dateLocks, invLock, todo, pre>>

-----------------------------------------------------------------------------
(* statestore.py: _get_unsafe and _is_valid, statement by statement.        *)

StoreFrame == <<lm, iso, limit, caller, md, upd, dateLocks, invLock, internalLock, todo, pre>>

\* statestore.py:69: if target_date in self._cache
GetInCache(t) ==
    /\ At(t, "get", "g_in")
    /\ IF Top(t).key \in DOMAIN cache
       THEN Goto(t, Top(t), "v_in")
       ELSE Return(t, None)
    /\ UNCHANGED <<cache, deps>>
    /\ UNCHANGED StoreFrame

\* statestore.py:157-158: if target_date not in self._dependencies: return False
IsValidInDeps(t) ==
    /\ At(t, "get", "v_in")
    /\ IF Top(t).key \in DOMAIN deps
       THEN Goto(t, Top(t), "v_upd")
       ELSE Goto(t, Top(t), "g_del")
    /\ UNCHANGED <<cache, deps>>
    /\ UNCHANGED StoreFrame

\* a validity check that takes the registry to be empty
IsValidUpdatedDatesNone(t) ==
    /\ At(t, "get", "v_upd")
    /\ Goto(t, [Top(t) EXCEPT !.snap = {}], "v_dep")
    /\ UNCHANGED <<cache, deps>>
    /\ UNCHANGED StoreFrame

\* statestore.py:161, marketdata.py:142-143: a copy of the registry
IsValidUpdatedDates(t) ==
    /\ At(t, "get", "v_upd")
    /\ Goto(t, [Top(t) EXCEPT !.snap = upd], "v_dep")
    /\ UNCHANGED <<cache, deps>>
    /\ UNCHANGED StoreFrame

\* only the dependencies on the first ticker of the basket
DependencyDatesOfBasket(d) == {a[1] : a \in {b \in d : b[2] = Basket[1]}}

\* the dates of a dependency set (statestore.py:162)
DependencyDates(d) == {a[1] : a \in d}

\* statestore.py:162-165: read self._dependencies[target_date]; valid iff no
\* dependency date is in the copy of the registry
IsValidDepDates(t) ==
    /\ At(t, "get", "v_dep")
    /\ IF Top(t).key \notin DOMAIN deps
       THEN Return(t, Raise("KeyError"))
       ELSE IF DependencyDates(deps[Top(t).key]) \cap Top(t).snap = {}
       THEN Goto(t, Top(t), "g_ret")
       ELSE Goto(t, Top(t), "g_del")
    /\ UNCHANGED <<cache, deps>>
    /\ UNCHANGED StoreFrame

\* a get that finds the entry valid and returns None all the same
GetReturnCachedNone(t) ==
    /\ At(t, "get", "g_ret")
    /\ Return(t, None)
    /\ UNCHANGED <<cache, deps>>
    /\ UNCHANGED StoreFrame

\* statestore.py:72: return self._cache[target_date]
GetReturnCached(t) ==
    /\ At(t, "get", "g_ret")
    /\ IF Top(t).key \in DOMAIN cache
       THEN Return(t, Val(cache[Top(t).key]))
       ELSE Return(t, Raise("KeyError"))
    /\ UNCHANGED <<cache, deps>>
    /\ UNCHANGED StoreFrame

\* statestore.py:75: del self._cache[target_date]
GetDelCache(t) ==
    /\ At(t, "get", "g_del")
    /\ IF Top(t).key \in DOMAIN cache
       THEN /\ cache' = DictDel(cache, Top(t).key)
            /\ Goto(t, Top(t), "g_din")
       ELSE /\ cache' = cache
            /\ Return(t, Raise("KeyError"))
    /\ UNCHANGED deps
    /\ UNCHANGED StoreFrame

\* statestore.py:76: if target_date in self._dependencies
GetInDeps(t) ==
    /\ At(t, "get", "g_din")
    /\ IF Top(t).key \in DOMAIN deps
       THEN Goto(t, Top(t), "g_ddel")
       ELSE Return(t, None)
    /\ UNCHANGED <<cache, deps>>
    /\ UNCHANGED StoreFrame

\* statestore.py:77-78: del self._dependencies[target_date]; return None
GetDelDeps(t) ==
    /\ At(t, "get", "g_ddel")
    /\ IF Top(t).key \in DOMAIN deps
       THEN /\ deps' = DictDel(deps, Top(t).key)
            /\ Return(t, None)
       ELSE /\ deps' = deps
            /\ Return(t, Raise("KeyError"))
    /\ UNCHANGED cache
    /\ UNCHANGED StoreFrame

-----------------------------------------------------------------------------
(* statestore.py: _put_unsafe.                                              *)

\* a put that stores the initial state whatever state it is given
PutCacheInitial(t) ==
    /\ At(t, "put", "p_cache")
    /\ cache' = DictSet(cache, Top(t).key, InitialState)
    /\ Goto(t, Top(t), "p_deps")
    /\ UNCHANGED deps
    /\ UNCHANGED StoreFrame

\* statestore.py:104: self._cache[target_date] = state
PutCache(t) ==
    /\ At(t, "put", "p_cache")
    /\ cache' = DictSet(cache, Top(t).key, Top(t).r)
    /\ Goto(t, Top(t), "p_deps")
    /\ UNCHANGED deps
    /\ UNCHANGED StoreFrame

\* The caller of a top-level put keeps the set it passed.  shared: the
\* store's dict holds that very object, so that a change of the set by the
\* caller is a change of the stored dependencies.
NoCallerSet == [live |-> FALSE, key |-> 0, r |-> <<>>, d |-> {}, val |-> {},
                shared |-> FALSE]
CallerSet(t, shared) ==
    IF Len(stack[t]) = 1
    THEN [caller EXCEPT ![t] = [live |-> TRUE, key |-> Top(t).key, r |-> Top(t).r,
                                d |-> Top(t).d, val |-> Top(t).d, shared |-> shared]]
    ELSE caller

\* a put that adds the dependencies to those already stored for the date
PutDepsMerge(t) ==
    /\ At(t, "put", "p_deps")
    /\ deps' = DictSet(deps, Top(t).key,
                       IF Top(t).key \in DOMAIN deps
                       THEN deps[Top(t).key] \cup Top(t).d ELSE Top(t).d)
    /\ caller' = CallerSet(t, FALSE)
    /\ Return(t, None)
    /\ UNCHANGED cache
    /\ UNCHANGED <<lm, iso, limit, md, upd, dateLocks, invLock, internalLock, todo, pre>>

\* a put that stores the caller's set itself
PutDepsAlias(t) ==
    /\ At(t, "put", "p_deps")
    /\ deps' = DictSet(deps, Top(t).key, Top(t).d)
    /\ caller' = CallerSet(t, TRUE)
    /\ Return(t, None)
    /\ UNCHANGED cache
    /\ UNCHANGED <<lm, iso, limit, md, upd, dateLocks, invLock, internalLock, todo, pre>>

\* statestore.py:105: self._dependencies[target_date] = dependencies.copy()
PutDeps(t) ==
    /\ At(t, "put", "p_deps")
    /\ deps' = DictSet(deps, Top(t).key, Top(t).d)
    /\ caller' = CallerSet(t, FALSE)
    /\ Return(t, None)
    /\ UNCHANGED cache
    /\ UNCHANGED <<lm, iso, limit, md, upd, dateLocks, invLock, internalLock, todo, pre>>

\* test_statestore.py:261-265: after put has returned, the caller adds an
\* address to the set it passed, or removes one
MutateCallerSet(t, a) ==
    /\ Idle(t)
    /\ caller[t].live
    /\ caller[t].val = caller[t].d
    /\ LET new == IF a \in caller[t].val THEN caller[t].val \ {a}
                  ELSE caller[t].val \cup {a}
       IN /\ caller' = [caller EXCEPT ![t].val = new]
          /\ deps' = IF caller[t].shared /\ caller[t].key \in DOMAIN deps
                     THEN [deps EXCEPT ![caller[t].key] = new]
                     ELSE deps
    /\ UNCHANGED <<lm, iso, limit, md, upd, cache, dateLocks, invLock, internalLock, stack,
                   todo, ret, log, pre, execs, fresh>>

-----------------------------------------------------------------------------
(* statestore.py: _invalidate_unsafe and clear.                             *)

\* statestore.py:133: the comprehension starts to iterate self._cache.keys();
\* the iterator notes the size of the dict
InvIterStart(t) ==
    /\ At(t, "invalidate", "i_iter")
    /\ Goto(t, [Top(t) EXCEPT !.n = Cardinality(DOMAIN cache)], "i_list")
    /\ UNCHANGED <<cache, deps>>
    /\ UNCHANGED StoreFrame

\* a sweep of the dates after invalidated_date only
InvListAfter(t) ==
    /\ At(t, "invalidate", "i_list")
    /\ LET todel == {d \in DOMAIN cache : d > Top(t).key} IN
       IF Cardinality(DOMAIN cache) # Top(t).n
       THEN Return(t, Raise("RuntimeError"))
       ELSE IF todel = {}
       THEN Return(t, None)
       ELSE Goto(t, [Top(t) EXCEPT !.snap = todel], "i_del")
    /\ UNCHANGED <<cache, deps>>
    /\ UNCHANGED StoreFrame

\* a sweep of invalidated_date only
InvListOnlyDate(t) ==
    /\ At(t, "invalidate", "i_list")
    /\ LET todel == {d \in DOMAIN cache : d = Top(t).key} IN
       IF Cardinality(DOMAIN cache) # Top(t).n
       THEN Return(t, Raise("RuntimeError"))
       ELSE IF todel = {}
       THEN Return(t, None)
       ELSE Goto(t, [Top(t) EXCEPT !.snap = todel], "i_del")
    /\ UNCHANGED <<cache, deps>>
    /\ UNCHANGED StoreFrame

\* statestore.py:133-136: the comprehension ends.  A dict whose size changed
\* under the iterator makes it raise RuntimeError; otherwise dates_to_remove
\* are the cached dates >= invalidated_date.  With nothing to remove the
\* loop of lines 137-140 is empty.
InvList(t) ==
    /\ At(t, "invalidate", "i_list")
    /\ LET todel == {d \in DOMAIN cache : d >= Top(t).key} IN
       IF Cardinality(DOMAIN cache) # Top(t).n
       THEN Return(t, Raise("RuntimeError"))
       ELSE IF todel = {}
       THEN Return(t, None)
       ELSE Goto(t, [Top(t) EXCEPT !.snap = todel], "i_del")
    /\ UNCHANGED <<cache, deps>>
    /\ UNCHANGED StoreFrame

\* after date d of dates_to_remove is dealt with: the next one, or return
InvNext(t, d) ==
    IF Top(t).snap \ {d} = {}
    THEN Return(t, None)
    ELSE Goto(t, [Top(t) EXCEPT !.snap = Top(t).snap \ {d}], "i_del")

\* statestore.py:137-138: for d in dates_to_remove: del self._cache[d]
InvDelCache(t) ==
    /\ At(t, "invalidate", "i_del")
    /\ \E d \in Top(t).snap :
        IF d \in DOMAIN cache
        THEN /\ cache' = DictDel(cache, d)
             /\ Goto(t, [Top(t) EXCEPT !.n = d], "i_din")
        ELSE /\ cache' = cache
             /\ Return(t, Raise("KeyError"))
    /\ UNCHANGED deps
    /\ UNCHANGED StoreFrame

\* statestore.py:139: if d in self._dependencies
InvInDeps(t) ==
    /\ At(t, "invalidate", "i_din")
    /\ IF Top(t).n \in DOMAIN deps
       THEN Goto(t, Top(t), "i_ddel")
       ELSE InvNext(t, Top(t).n)
    /\ UNCHANGED <<cache, deps>>
    /\ UNCHANGED StoreFrame

\* statestore.py:140: del self._dependencies[d]
InvDelDeps(t) ==
    /\ At(t, "invalidate", "i_ddel")
    /\ IF Top(t).n \in DOMAIN deps
       THEN /\ deps' = DictDel(deps, Top(t).n)
            /\ InvNext(t, Top(t).n)
       ELSE /\ deps' = deps
            /\ Return(t, Raise("KeyError"))
    /\ UNCHANGED cache
    /\ UNCHANGED StoreFrame

\* a clear that drops only the entries a get would not serve
ClearCacheStale(t) ==
    /\ At(t, "clear", "cl_cache")
    /\ cache' = [k \in {x \in DOMAIN cache :
                            /\ x \in DOMAIN deps
                            /\ {a[1] : a \in deps[x]} \cap upd = {}} |-> cache[k]]
    /\ Goto(t, Top(t), "cl_deps")
    /\ UNCHANGED deps
    /\ UNCHANGED StoreFrame

\* statestore.py:174: self._cache.clear()
ClearCache(t) ==
    /\ At(t, "clear", "cl_cache")
    /\ cache' = NoFn
    /\ Goto(t, Top(t), "cl_deps")
    /\ UNCHANGED deps
    /\ UNCHANGED StoreFrame

\* statestore.py:175: self._dependencies.clear()
ClearDeps(t) ==
    /\ At(t, "clear", "cl_deps")
    /\ deps' = NoFn
    /\ Return(t, None)
    /\ UNCHANGED cache
    /\ UNCHANGED StoreFrame

-----------------------------------------------------------------------------
(* rule.py: _compute_state_unsafe after a cache miss.                       *)

\* a calendar whose first date is computed like the seed
CalendarPrevOrInitial(t) ==
    /\ At(t, "compute", "prev")
    /\ IF HasPrev(Top(t).key)
       THEN /\ stack' = [stack EXCEPT ![t] =
                   Append(Below(t), [Top(t) EXCEPT !.pc = "w_prev"])
                   \o ComputeFrames(Prev(Top(t).key))]
            /\ UNCHANGED <<execs, ret, log, fresh>>
       ELSE Return(t, Val(InitialState))
    /\ UNCHANGED <<cache, deps>>
    /\ UNCHANGED StoreFrame

\* the compute_state calls of t that have not returned
Nesting(t) ==
    Cardinality({i \in 1..Len(stack[t]) : stack[t][i].op = "compute"})

\* a recursive call made whatever the recursion limit is
CalendarPrevNoLimit(t) ==
    /\ At(t, "compute", "prev")
    /\ IF ~HasPrev(Top(t).key)
       THEN Return(t, Raise("ScheduleError"))
       ELSE /\ stack' = [stack EXCEPT ![t] =
                   Append(Below(t), [Top(t) EXCEPT !.pc = "w_prev"])
                   \o ComputeFrames(Prev(Top(t).key))]
            /\ UNCHANGED <<execs, ret, log, fresh>>
    /\ UNCHANGED <<cache, deps>>
    /\ UNCHANGED StoreFrame

\* rule.py:154-163, schedule.py:23-42: prev_date = calendar.prev(date), which
\* raises ScheduleError when no date precedes; then the recursive call, which
\* raises RecursionError when the interpreter's limit of nested calls is
\* reached
CalendarPrev(t) ==
    /\ At(t, "compute", "prev")
    /\ IF ~HasPrev(Top(t).key)
       THEN Return(t, Raise("ScheduleError"))
       ELSE IF Nesting(t) >= limit
       THEN Return(t, Raise("RecursionError"))
       ELSE /\ stack' = [stack EXCEPT ![t] =
                   Append(Below(t), [Top(t) EXCEPT !.pc = "w_prev"])
                   \o ComputeFrames(Prev(Top(t).key))]
            /\ UNCHANGED <<execs, ret, log, fresh>>
    /\ UNCHANGED <<cache, deps>>
    /\ UNCHANGED StoreFrame

\* marketdata.py:74-78: md.get raises MarketDataError for a missing close
HasPrice(k, f) == k \in DOMAIN md /\ f \in DOMAIN md[k]

\* a computation that stores the predecessor's state under its own date
\* before it reads the close
ReadCurStoring(t) ==
    /\ At(t, "compute", "rd_cur")
    /\ LET fr == Top(t)
           asset == Basket[fr.n]
       IN IF HasPrice(fr.key, asset)
          THEN Goto(t, [fr EXCEPT !.px = Append(fr.px, md[fr.key][asset])], "rd_prev")
          ELSE Return(t, Raise("MarketDataError"))
    /\ cache' = DictSet(cache, Top(t).key, Top(t).r)
    /\ UNCHANGED deps
    /\ UNCHANGED StoreFrame

\* rule.py:171: self.md.get(date, asset), the dividend, for the n-th asset
ReadCur(t) ==
    /\ At(t, "compute", "rd_cur")
    /\ LET fr == Top(t)
           asset == Basket[fr.n]
       IN IF HasPrice(fr.key, asset)
          THEN Goto(t, [fr EXCEPT !.px = Append(fr.px, md[fr.key][asset])], "rd_prev")
          ELSE Return(t, Raise("MarketDataError"))
    /\ UNCHANGED <<cache, deps>>
    /\ UNCHANGED StoreFrame

\* a step that records the close of its own date only
DependenciesOfDate(d, date, prev_date, asset) == d \cup {<<date, asset>>}

\* rule.py:173-174: dependencies.add((date, asset)) and
\* dependencies.add((prev_date, asset))
Dependencies(d, date, prev_date, asset) ==
    d \cup {<<date, asset>>, <<prev_date, asset>>}

\* a month-end test that takes the last date of the calendar for a day that
\* is not the last of its month, instead of raising
ReadPrevNoNext(t) ==
    /\ At(t, "compute", "rd_prev")
    /\ LET fr == Top(t)
           asset == Basket[fr.n]
           pk == Prev(fr.key)
           ppx == Append(fr.ppx, md[pk][asset])
           d == Dependencies(fr.d, fr.key, pk, asset)
           state == StepState(fr.r, fr.px, ppx,
                              HasNext(fr.key) /\ IsLastDayOfMonth(fr.key))
       IN IF ~HasPrice(pk, asset)
          THEN Return(t, Raise("MarketDataError"))
          ELSE IF fr.n < Len(Basket)
          THEN Goto(t, [fr EXCEPT !.ppx = ppx, !.d = d, !.n = fr.n + 1], "rd_cur")
          ELSE /\ stack' = [stack EXCEPT ![t] =
                      Append(Below(t), [fr EXCEPT !.pc = "w_put", !.r = state, !.d = d])
                      \o <<PutFrame(fr.key, state, d, EngineStoreLk)>>]
               /\ UNCHANGED <<execs, ret, log, fresh>>
    /\ UNCHANGED <<cache, deps>>
    /\ UNCHANGED StoreFrame

\* rule.py:171-205: self.md.get(prev_date, asset), the divisor, and the two
\* dependencies of the asset; after the last asset the month-end test
\* (schedule.py:86-99: ScheduleError when no date follows), the new state
\* and the call of put
ReadPrev(t) ==
    /\ At(t, "compute", "rd_prev")
    /\ LET fr == Top(t)
           asset == Basket[fr.n]
           pk == Prev(fr.key)
           ppx == Append(fr.ppx, md[pk][asset])
           d == Dependencies(fr.d, fr.key, pk, asset)
           state == StepState(fr.r, fr.px, ppx, IsLastDayOfMonth(fr.key))
       IN IF ~HasPrice(pk, asset)
          THEN Return(t, Raise("MarketDataError"))
          ELSE IF fr.n < Len(Basket)
          THEN Goto(t, [fr EXCEPT !.ppx = ppx, !.d = d, !.n = fr.n + 1], "rd_cur")
          ELSE IF ~HasNext(fr.key)
          THEN Return(t, Raise("ScheduleError"))
          ELSE /\ stack' = [stack EXCEPT ![t] =
                      Append(Below(t), [fr EXCEPT !.pc = "w_put", !.r = state, !.d = d])
                      \o <<PutFrame(fr.key, state, d, EngineStoreLk)>>]
               /\ UNCHANGED <<execs, ret, log, fresh>>
    /\ UNCHANGED <<cache, deps>>
    /\ UNCHANGED StoreFrame

-----------------------------------------------------------------------------
(* Several strategies, each with its store, on MarketData instances; one    *)
(* thread, every call run to its end.                                       *)

\* test_statestore.py:389-435: e1 and e2 are built on one MarketData;
\* test_statestore.py:497-539: e3 is built on another
Strategies == {"e1", "e2", "e3"}
Tables == {"mA", "mB"}
MdOf(e) == IF e = "e3" THEN "mB" ELSE "mA"
IsoDates == {Seed, Seed + 1}
\* the strategies that are given a lock manager after construction
\* (test_thread_safety_pystack.py:98-145 does so once, before its threads start)
LockManaged == {"e1"}
\* the stores a strategy makes: the first in __post_init__, the second in
\* set_lock_manager
StoreIds == Strategies \X {"first", "second"}
EmptyStore == [cache |-> NoFn, deps |-> NoFn]
\* the specifications of a single strategy have no use for iso
NoIso == <<>>

\* statestore.py:157-165 on the store st, reg the registry of its table
IsoIsValid(st, reg, k) ==
    /\ k \in DOMAIN st.deps
    /\ {a[1] : a \in st.deps[k]} \cap reg = {}

\* statestore.py:69-78: a miss evicts the entry that is not valid
IsoEvict(st, k) ==
    IF k \in DOMAIN st.cache
    THEN [cache |-> DictDel(st.cache, k), deps |-> DictDel(st.deps, k)]
    ELSE st

\* rule.py:119-205 on the store st with the table px, all closes present:
\* the store afterwards and the state returned
RECURSIVE IsoComputeState(_, _, _, _)
IsoComputeState(st, px, reg, k) ==
    IF k \in DOMAIN st.cache /\ IsoIsValid(st, reg, k)
    THEN [st |-> st, out |-> st.cache[k]]
    ELSE IF k = Seed
    THEN [st |-> [cache |-> DictSet(IsoEvict(st, k).cache, k, InitialState),
                  deps |-> DictSet(IsoEvict(st, k).deps, k, SeedDependencies)],
          out |-> InitialState]
    ELSE LET p == IsoComputeState(IsoEvict(st, k), px, reg, Prev(k))
             state == StepState(p.out,
                                [i \in 1..Len(Basket) |-> px[k][Basket[i]]],
                                [i \in 1..Len(Basket) |-> px[Prev(k)][Basket[i]]],
                                IsLastDayOfMonth(k))
             d == UNION {{<<k, Basket[i]>>, <<Prev(k), Basket[i]>>} :
                            i \in 1..Len(Basket)}
         IN [st |-> [cache |-> DictSet(p.st.cache, k, state),
                     deps |-> DictSet(p.st.deps, k, d)],
             out |-> state]

\* statestore.py:133-140
IsoInvalidate(st, x) ==
    LET dates_to_remove == {d \in DOMAIN st.cache : d >= x} IN
    [cache |-> [d \in DOMAIN st.cache \ dates_to_remove |-> st.cache[d]],
     deps |-> [d \in DOMAIN st.deps \ dates_to_remove |-> st.deps[d]]]

\* marketdata.py:118-119: for callback in callbacks_copy: callback(date)
RECURSIVE IsoNotify(_, _, _)
IsoNotify(r, cbs, x) ==
    IF cbs = <<>> THEN r
    ELSE IsoNotify([store |-> [r.store EXCEPT ![Head(cbs)] = IsoInvalidate(@, x)],
                    calls |-> [r.calls EXCEPT ![Head(cbs)] = @ + 1]],
                   Tail(cbs), x)

\* one callback list for all MarketData instances
IsoCallbacksOfAll(m) == iso.cb["mA"] \o iso.cb["mB"]

\* marketdata.py:114: callbacks_copy = list(self._update_callbacks)
IsoCallbacks(m) == iso.cb[m]

IsoRest == <<lm, md, upd, cache, deps, dateLocks, invLock, internalLock,
             stack, todo, ret, log, pre, execs, fresh, caller, limit>>

NoCalls == [s \in StoreIds |-> 0]

\* rule.py:89-117: strategy e computes date k
IsoCompute(e, k) ==
    LET s == iso.cur[e]
        m == MdOf(e)
        c == IsoComputeState(iso.store[s], iso.px[m], iso.reg[m], k)
    IN /\ iso' = [iso EXCEPT !.store[s] = c.st,
                             !.calls = NoCalls,
                             !.last = [op |-> "compute", md |-> m, x |-> k, hit |-> {}]]
       /\ UNCHANGED IsoRest

\* marketdata.py:89-119: update of the close of the basket's ticker at x in
\* table m
IsoUpdate(m, x) ==
    LET r == IsoNotify([store |-> iso.store, calls |-> NoCalls], IsoCallbacks(m), x)
    IN /\ iso' = [iso EXCEPT !.px[m][x][Basket[1]] = MaxPrice,
                             !.reg[m] = @ \cup {x},
                             !.store = r.store,
                             !.calls = r.calls,
                             !.last = [op |-> "update", md |-> m, x |-> x,
                                       hit |-> {s \in DOMAIN iso.store :
                                                  \E d \in DOMAIN iso.store[s].cache :
                                                      d >= x}]]
       /\ UNCHANGED IsoRest

\* rule.py:56-71: set_lock_manager makes a new store and registers its
\* invalidate; the callback of the store it replaces stays registered
IsoSetLockManager(e) ==
    LET new == <<e, "second">>
    IN /\ e \in LockManaged
       /\ new \notin DOMAIN iso.store
       /\ iso' = [iso EXCEPT !.store = DictSet(@, new, EmptyStore),
                             !.cur[e] = new,
                             !.cb[MdOf(e)] = Append(@, new),
                             !.calls = NoCalls,
                             !.last = [op |-> "set_lock_manager", md |-> MdOf(e),
                                       x |-> 0, hit |-> {}]]
       /\ UNCHANGED IsoRest

\* rule.py:50-54, marketdata.py:25-38: the three strategies as constructed
InitIso ==
    /\ iso = [px |-> [m \in Tables |-> [k \in Calendar |-> [f \in Fields |-> 1]]],
              reg |-> [m \in Tables |-> {}],
              cb |-> [m \in Tables |->
                        IF m = "mA" THEN << <<"e1", "first">>, <<"e2", "first">> >>
                        ELSE << <<"e3", "first">> >>],
              store |-> [s \in {<<e, "first">> : e \in Strategies} |-> EmptyStore],
              cur |-> [e \in Strategies |-> <<e, "first">>],
              calls |-> NoCalls,
              last |-> [op |-> "init", md |-> "mA", x |-> 0, hit |-> {}]]
    /\ lm = FALSE
    /\ md = [k \in Calendar |-> [f \in Fields |-> 1]]
    /\ upd = {}
    /\ cache = NoFn
    /\ deps = NoFn
    /\ dateLocks = NoFn
    /\ invLock = Free
    /\ internalLock = Free
    /\ stack = [t \in Threads |-> <<>>]
    /\ todo = [t \in Threads |-> 0]
    /\ ret = [t \in Threads |-> Pending]
    /\ log = [t \in Threads |-> <<>>]
    /\ execs = [k \in Keys |-> 0]
    /\ fresh = [k \in Keys |-> [has |-> FALSE, val |-> <<>>]]
    /\ pre = [t \in Threads |-> NoSnapshot]
    /\ caller = [t \in Threads |-> NoCallerSet]
    /\ limit = DefaultLimit

NextIso ==
    \/ \E e \in Strategies, k \in IsoDates : IsoCompute(e, k)
    \/ \E m \in Tables, x \in IsoDates : IsoUpdate(m, x)
    \/ \E e \in Strategies : IsoSetLockManager(e)

SpecIso == InitIso /\ [][NextIso]_vars

-----------------------------------------------------------------------------
(* runner.py: get_states.                                                   *)

\* from_date: None, or a date
NoFromDate == [none |-> TRUE]
FromDate(d) == [none |-> FALSE, date |-> d]

\* a range that leaves out to_date
ResolveDatesBefore(from_date, to_date) ==
    {c \in Calendar :
        c >= (IF from_date.none THEN Seed ELSE from_date.date) /\ c < to_date}

\* rule.py:84-87, schedule.py:65-84: the calendar's dates from from_date
\* (the seed date for None) to to_date, both included
ResolveDates(from_date, to_date) ==
    {c \in Calendar :
        c >= (IF from_date.none THEN Seed ELSE from_date.date) /\ c <= to_date}

\* runner.py:18: schedule = strategy.resolve_dates(from_date, to_date)
CallGetStates(t, from_date, to_date) ==
    /\ Begin(t, <<[Frame("get_states", [from |-> from_date, to |-> to_date],
                         "none", "gs_next")
                      EXCEPT !.snap = ResolveDates(from_date, to_date)]>>)
    /\ UNCHANGED <<lm, iso, limit, caller, md, upd, cache, deps, dateLocks, invLock,
                   internalLock, log, execs, fresh>>

\* runner.py:21-26, schedule.py:101-104: the comprehension takes the next
\* date of the schedule, in ascending order, and calls compute_state; after
\* the last date the dict is returned
GetStatesNext(t) ==
    /\ At(t, "get_states", "gs_next")
    /\ IF Top(t).snap = {}
       THEN Return(t, Val(Top(t).results))
       ELSE LET current_date == Min(Top(t).snap) IN
            /\ stack' = [stack EXCEPT ![t] =
                   Append(Below(t), [Top(t) EXCEPT !.pc = "w_state",
                                                   !.n = current_date,
                                                   !.snap = @ \ {current_date}])
                   \o ComputeFrames(current_date)]
            /\ UNCHANGED <<execs, ret, log, fresh>>
    /\ UNCHANGED <<cache, deps>>
    /\ UNCHANGED StoreFrame

-----------------------------------------------------------------------------
(* Initial states and specifications.                                       *)

\* After construction: the loaded price table (every date has a close for
\* every ticker), an empty registry, an empty store, no lock created or held.
InitShared ==
    /\ md = [k \in Calendar |-> [f \in Fields |-> 1]]
    /\ cache = NoFn
    /\ deps = NoFn
    /\ dateLocks = NoFn
    /\ invLock = Free
    /\ internalLock = Free
    /\ stack = [t \in Threads |-> <<>>]
    /\ ret = [t \in Threads |-> Pending]
    /\ log = [t \in Threads |-> <<>>]
    /\ execs = [k \in Keys |-> 0]
    /\ fresh = [k \in Keys |-> [has |-> FALSE, val |-> <<>>]]
    /\ pre = [t \in Threads |-> NoSnapshot]
    /\ caller = [t \in Threads |-> NoCallerSet]
    /\ iso = NoIso
    /\ limit = DefaultLimit

\* the steps of a call in progress that every specification shares
GetSteps(t) ==
    \/ GetInCache(t)
    \/ IsValidInDeps(t)
    \/ IsValidUpdatedDates(t)
    \/ IsValidDepDates(t)
    \/ GetReturnCached(t)
    \/ GetDelCache(t)
    \/ GetInDeps(t)
    \/ GetDelDeps(t)

PutSteps(t) == PutCache(t) \/ PutDeps(t)

ComputeSteps(t) == CalendarPrev(t) \/ ReadCur(t) \/ ReadPrev(t)

InvalidateSteps(t) ==
    \/ InvIterStart(t)
    \/ InvList(t)
    \/ InvDelCache(t)
    \/ InvInDeps(t)
    \/ InvDelDeps(t)

ClearSteps(t) == ClearCache(t) \/ ClearDeps(t)

(* The engine used by one thread, without a lock manager (the strategy as   *)
(* constructed, rule.py:50-54): compute_state, md.update,                   *)
(* md.clear_updated_dates, the store's get and clear, MaxOps calls in any   *)
(* order.  The run starts with an empty store; dates updated before it      *)
(* (md.update with the close unchanged) may be in the registry.             *)
SeqDates == {Seed, Seed + 1}
InitSeq ==
    /\ lm = FALSE
    /\ upd \in SUBSET SeqDates
    /\ todo = [t \in Threads |-> IF t = "t1" THEN MaxOps ELSE 0]
    /\ InitShared

NextSeq ==
    \E t \in Threads :
        \/ \E k \in Seed..(Seed + 2) : CallComputeState(t, k)
        \/ \E k \in SeqDates : CallGet(t, k)
        \/ \E x \in SeqDates : CallUpdate(t, x, "A", MaxPrice)
        \/ CallClearUpdatedDates(t)
        \/ CallClear(t)
        \/ AcquireInternalLock(t)
        \/ ReleaseInternalLock(t)
        \/ GetSteps(t)
        \/ PutSteps(t)
        \/ ComputeSteps(t)
        \/ InvalidateSteps(t)
        \/ ClearSteps(t)

SpecSeq == InitSeq /\ [][NextSeq]_vars

(* Concurrent computation under a lock manager (set_lock_manager,           *)
(* rule.py:56-71): every thread issues compute_state calls; nothing updates,*)
(* invalidates or clears meanwhile.  Dates updated before the threads start *)
(* may still be in the registry.                                            *)
InitCompute ==
    /\ lm = TRUE
    /\ upd \in SUBSET {Seed, Seed + 1}
    /\ todo = [t \in Threads |-> IF t = "t3" THEN 0 ELSE 1]
    /\ InitShared

NextCompute ==
    \E t \in Threads :
        \/ \E k \in Keys : CallComputeState(t, k)
        \/ DateLockGetOrCreate(t)
        \/ AcquireDateLock(t)
        \/ ReleaseDateLock(t)
        \/ GetSteps(t)
        \/ PutSteps(t)
        \/ ComputeSteps(t)

SpecCompute == InitCompute /\ [][NextCompute]_vars

(* The engine under a lock manager while the data changes: two threads,     *)
(* one call each.  The first issues compute_state or the store's public get *)
(* or put, the second compute_state, get or md.update, whose callback       *)
(* sweeps the store.                                                        *)
InitRace ==
    /\ lm = TRUE
    /\ upd \in {{}, {Seed + 1}}
    /\ todo = [t \in Threads |-> IF t = "t3" THEN 0 ELSE 1]
    /\ InitShared

NextRace ==
    \E t \in Threads :
        \/ \E k \in Keys : CallComputeState(t, k)
        \/ \E k \in Keys : t = "t2" /\ CallGet(t, k)
        \/ \E k \in Keys : t = "t1" /\ CallPut(t, k, InitialState, {<<k, "A">>})
        \/ \E x \in Calendar : t = "t2" /\ CallUpdate(t, x, "A", MaxPrice)
        \/ DateLockGetOrCreate(t)
        \/ AcquireDateLock(t)
        \/ ReleaseDateLock(t)
        \/ AcquireInvalidationLock(t)
        \/ ReleaseInvalidationLock(t)
        \/ GetSteps(t)
        \/ PutSteps(t)
        \/ ComputeSteps(t)
        \/ InvalidateSteps(t)

SpecRace == InitRace /\ [][NextRace]_vars

(* The store on its own, with or without a lock manager: one call of get,   *)
(* put, invalidate, clear, md.update or md.clear_updated_dates from any     *)
(* content that puts and updates can have produced.  Every stored date has  *)
(* a state and a dependency set (put writes both); the states and sets      *)
(* handed to put are the caller's choice.                                   *)
StoreDates == Seed..(Seed + 2)
\* a state as a caller of put may make one up: tagged with its date
MadeUpState(k, i) == <<[cur |-> <<k>>, prev |-> <<i>>, rebalance |-> FALSE]>>
\* contents a caller may put at date k: no dependency, or closes of both
\* tickers at k and before
StoreEntries(k) ==
    { [r |-> MadeUpState(k, 1), d |-> {}],
      [r |-> MadeUpState(k, 2), d |-> {<<k, "A">>, <<Prev(k), "B">>}] }
\* a store filled by puts and a registry filled by updates, nothing running
InitFilled ==
    /\ lm \in BOOLEAN
    /\ upd \in SUBSET StoreDates
    /\ md = [k \in Calendar |-> [f \in Fields |-> 1]]
    /\ \E S \in SUBSET StoreDates :
         \E f \in [S -> UNION {StoreEntries(k) : k \in StoreDates}] :
            /\ \A k \in S : f[k] \in StoreEntries(k)
            /\ cache = [k \in S |-> f[k].r]
            /\ deps = [k \in S |-> f[k].d]
    /\ dateLocks = NoFn
    /\ invLock = Free
    /\ internalLock = Free
    /\ stack = [t \in Threads |-> <<>>]
    /\ ret = [t \in Threads |-> Pending]
    /\ log = [t \in Threads |-> <<>>]
    /\ execs = [k \in Keys |-> 0]
    /\ fresh = [k \in Keys |-> [has |-> FALSE, val |-> <<>>]]
    /\ pre = [t \in Threads |-> NoSnapshot]
    /\ caller = [t \in Threads |-> NoCallerSet]
    /\ iso = NoIso
    /\ limit = DefaultLimit

InitStore ==
    /\ todo = [t \in Threads |-> IF t = "t1" THEN 1 ELSE 0]
    /\ InitFilled

NextStore ==
    \E t \in Threads :
        \/ \E k \in StoreDates : CallGet(t, k)
        \/ \E k \in StoreDates : \E e \in StoreEntries(k) : CallPut(t, k, e.r, e.d)
        \/ \E x \in StoreDates : CallInvalidate(t, x)
        \/ \E x \in StoreDates, f \in Fields : CallUpdate(t, x, f, MaxPrice)
        \/ CallClearUpdatedDates(t)
        \/ CallClear(t)
        \/ DateLockGetOrCreate(t)
        \/ AcquireDateLock(t)
        \/ ReleaseDateLock(t)
        \/ AcquireInvalidationLock(t)
        \/ ReleaseInvalidationLock(t)
        \/ AcquireInternalLock(t)
        \/ ReleaseInternalLock(t)
        \/ GetSteps(t)
        \/ PutSteps(t)
        \/ InvalidateSteps(t)
        \/ ClearSteps(t)

SpecStore == InitStore /\ [][NextStore]_vars

(* compute_state on a price table with gaps (a date of the table that has   *)
(* no close for the basket's ticker), with or without a lock manager: two   *)
(* threads, one call each, one after the other or at the same time.  A     *)
(* date updated before the run may be in the registry.                      *)
GapDates == {Seed + 1, Seed + 2}
InitErr ==
    /\ lm \in BOOLEAN
    /\ upd \in {{}, {Seed + 1}}
    /\ todo = [t \in Threads |-> IF t = "t3" THEN 0 ELSE 1]
    /\ \E gaps \in SUBSET GapDates :
          md = [k \in Calendar |->
                  [f \in (IF k \in gaps THEN Fields \ {"A"} ELSE Fields) |-> 1]]
    /\ cache = NoFn
    /\ deps = NoFn
    /\ dateLocks = NoFn
    /\ invLock = Free
    /\ internalLock = Free
    /\ stack = [t \in Threads |-> <<>>]
    /\ ret = [t \in Threads |-> Pending]
    /\ log = [t \in Threads |-> <<>>]
    /\ execs = [k \in Keys |-> 0]
    /\ fresh = [k \in Keys |-> [has |-> FALSE, val |-> <<>>]]
    /\ pre = [t \in Threads |-> NoSnapshot]
    /\ caller = [t \in Threads |-> NoCallerSet]
    /\ iso = NoIso
    /\ limit = DefaultLimit

NextErr ==
    \E t \in Threads :
        \/ \E k \in Keys : CallComputeState(t, k)
        \/ DateLockGetOrCreate(t)
        \/ AcquireDateLock(t)
        \/ ReleaseDateLock(t)
        \/ AcquireInternalLock(t)
        \/ ReleaseInternalLock(t)
        \/ GetSteps(t)
        \/ PutSteps(t)
        \/ ComputeSteps(t)

SpecErr == InitErr /\ [][NextErr]_vars

(* put, then a change of the set that was passed, then get of the same     *)
(* date: one thread, on any content that puts and updates can have          *)
(* produced, with or without a lock manager.                                *)
NextPut ==
    \E t \in Threads :
        \/ \E k \in StoreDates : \E e \in StoreEntries(k) :
              log[t] = <<>> /\ CallPut(t, k, e.r, e.d)
        \/ \E a \in StoreDates \X Fields :
              a[1] \in {caller[t].key, Prev(caller[t].key)} /\ MutateCallerSet(t, a)
        \/ caller[t].live /\ CallGet(t, caller[t].key)
        \/ DateLockGetOrCreate(t)
        \/ AcquireDateLock(t)
        \/ ReleaseDateLock(t)
        \/ AcquireInternalLock(t)
        \/ ReleaseInternalLock(t)
        \/ GetSteps(t)
        \/ PutSteps(t)

InitPut ==
    /\ todo = [t \in Threads |-> IF t = "t1" THEN 2 ELSE 0]
    /\ InitFilled

SpecPut == InitPut /\ [][NextPut]_vars

-----------------------------------------------------------------------------
(* Properties.                                                              *)

\* the last top-level call a thread has completed
LastCall(t) == log[t][Len(log[t])]
Returned(t, op) == Idle(t) /\ log[t] # <<>> /\ LastCall(t).op = op
\* every call has been issued and has returned
Quiet == \A t \in Threads : Idle(t) /\ todo[t] = 0
\* the threads that made a call
Callers == {t \in Threads : log[t] # <<>>}
\* all the calls of the run were compute_state(K), by two threads or more,
\* and all returned a state
SameKeyCalls(K) ==
    /\ Quiet
    /\ Cardinality(Callers) >= 2
    /\ \A t \in Callers : /\ LastCall(t).op = "compute"
                          /\ LastCall(t).key = K
                          /\ LastCall(t).out.kind = "val"
\* the chain Seed..K ran once per date, and every caller got the stored entry
ExactlyOnce(K) ==
    /\ \A j \in Seed..K : execs[j] = 1
    /\ K \in DOMAIN cache
    /\ \A t \in Callers : LastCall(t).out = Val(cache[K])
\* the dependency dates of the entry the engine stores for K (rule.py:146,
\* 156-166): K and its predecessor, none for the seed
EngineDepDates(K) == IF K = Seed THEN {} ELSE {K, Prev(K)}

WaitsOn(t, u) ==
    /\ ~Idle(t)
    /\ Top(t).pc = "acq"
    /\ Top(t).lk = "date"
    /\ Top(t).key \in DOMAIN dateLocks
    /\ dateLocks[Top(t).key] = u
\* the date of the top-level call a thread is in
Request(t) == stack[t][1].key
InCompute(t) == ~Idle(t) /\ stack[t][1].op = "compute"

InSection(t, K) ==
    \E i \in 1..Len(stack[t]) :
        /\ stack[t][i].lk = "date"
        /\ stack[t][i].key = K
        /\ stack[t][i].pc \notin {"getlock", "acq"}

(* C2: at any moment at most one thread is between the acquire and the      *)
(* release of the lock of a date K, whether it runs the critical section of *)
(* compute_state(K) or a get(K) or put(K) of the store under that lock.     *)
C2_MutualExclusion ==
    \A K \in Keys : Cardinality({t \in Threads : InSection(t, K)}) <= 1

\* a get or put holds the lock of a date while a compute_state waits for it
C2_Witness ==
    \E t, u \in Threads :
        /\ ~Idle(t) /\ stack[t][1].op \in {"get", "put"}
        /\ InSection(t, Request(t))
        /\ InCompute(u) /\ WaitsOn(u, t)
        /\ Top(u).key = Request(t)

\* the holder of the lock a thread is about to acquire
HolderOf(t) ==
    CASE Top(t).lk = "date" -> dateLocks[Top(t).key]
      [] Top(t).lk = "inv" -> invLock
      [] OTHER -> internalLock
Blocked(t) == ~Idle(t) /\ Top(t).pc = "acq" /\ HolderOf(t) # Free
\* following the holders from t for at most n waits leads to a thread that
\* is inside a call and waits for nothing
RECURSIVE WaitEnds(_, _)
WaitEnds(t, n) ==
    IF Blocked(t) THEN n > 0 /\ WaitEnds(HolderOf(t), n - 1) ELSE ~Idle(t)
\* a step of a call in progress
ThreadStep(t) ==
    \/ DateLockGetOrCreate(t) \/ AcquireDateLock(t) \/ ReleaseDateLock(t)
    \/ AcquireInvalidationLock(t) \/ ReleaseInvalidationLock(t)
    \/ AcquireInternalLock(t) \/ ReleaseInternalLock(t)
    \/ GetSteps(t) \/ PutSteps(t) \/ ComputeSteps(t)
    \/ InvalidateSteps(t) \/ ClearSteps(t)

\* the threads waiting for locks form no cycle: every chain of waits ends at
\* a thread that waits for nothing, and such a thread can take its next step
NoWaitCycle ==
    \A t \in Threads :
        /\ Blocked(t) => WaitEnds(t, Cardinality(Threads))
        /\ ~Idle(t) /\ ~Blocked(t) => ENABLED ThreadStep(t)

\* The threads of SpecRace under a scheduler that lets every thread that can
\* take a step take one eventually (the interpreter switches threads after
\* a fixed interval; a released Lock is handed to a waiting thread).
SpecRaceFair == SpecRace /\ \A t \in Threads : WF_vars(ThreadStep(t))

(* C3: with compute_state, md.update and the store's get and put running    *)
(* concurrently under a lock manager there is no deadlock: the threads      *)
(* waiting for locks never form a cycle, and no thread stays blocked for    *)
(* ever: every call that was made returns.                                  *)
C3_NoDeadlock == []NoWaitCycle /\ <>[](\A t \in Threads : Idle(t))

\* a compute_state holding the lock of its date waits for a predecessor's
\* lock, which a get of the store holds
C3_Witness ==
    \E t, u \in Threads :
        /\ t # u
        /\ InCompute(t) /\ WaitsOn(t, u)
        /\ InSection(t, Request(t))
        /\ Top(t).key < Request(t)
        /\ stack[u][1].op = "get"

\* rule.py:119-205 run from the seed to k on the table m with nothing cached
RECURSIVE FoldState(_, _)
FoldState(m, k) ==
    IF k = Seed THEN InitialState
    ELSE StepState(FoldState(m, Prev(k)),
                   [i \in 1..Len(Basket) |-> m[k][Basket[i]]],
                   [i \in 1..Len(Basket) |-> m[Prev(k)][Basket[i]]],
                   IsLastDayOfMonth(k))
\* get would return the entry of K (statestore.py:142-165)
Served(K) ==
    /\ K \in DOMAIN cache
    /\ K \in DOMAIN deps
    /\ \A a \in deps[K] : a[1] \notin upd

(* C7: once md.update at X has returned and the compute_state calls that    *)
(* ran concurrently with it have finished, every result the store serves    *)
(* for a date >= X equals the state a recomputation from the seed on the    *)
(* current prices produces.                                                 *)
C7_NoStaleEntry ==
    Quiet /\ Returned("t2", "update") /\ Returned("t1", "compute") =>
        \A K \in Keys :
            K >= LastCall("t2").key /\ Served(K) => cache[K] = FoldState(md, K)


\* f without its entries for the dates >= x
Before(f, x) == [k \in {d \in DOMAIN f : d < x} |-> f[k]]

(* C5: invalidate(X) removes exactly the entries, result and dependency     *)
(* set, whose date is >= X, leaves every entry with a date < X unchanged,   *)
(* adds nothing, and changes nothing when no entry has a date >= X.         *)
C5_InvalidateFrame ==
    \A t \in Threads :
        Returned(t, "invalidate") /\ pre[t].ok =>
            /\ LastCall(t).out = None
            /\ cache = Before(pre[t].cache, LastCall(t).key)
            /\ deps = Before(pre[t].deps, LastCall(t).key)
            /\ upd = pre[t].upd
            /\ md = pre[t].md

\* an invalidate returned that found its own date and later ones, and an
\* earlier one, in the store
C5_Witness ==
    \E t \in Threads :
        /\ Returned(t, "invalidate") /\ pre[t].ok
        /\ LastCall(t).key \in DOMAIN pre[t].cache
        /\ \E k \in DOMAIN pre[t].cache : k > LastCall(t).key
        /\ \E k \in DOMAIN cache : k < LastCall(t).key

ServedIn(c, d, u, k) ==
    /\ k \in DOMAIN c
    /\ k \in DOMAIN d
    /\ \A a \in d[k] : a[1] \notin u
\* the call before the last one was op, in a window of two completed calls
Previous(t, op) == Len(log[t]) = 2 /\ log[t][1].op = op

(* C6: when md.update(X, f, v) has returned with no other thread running,   *)
(* the store holds no entry with a date >= X, every entry with a date < X   *)
(* is there unchanged and still served if it was, and the next              *)
(* compute_state(K) with K >= X executes the step of every date from X to K *)
(* again and returns the state of the updated prices.                       *)
C6_AfterUpdate ==
    \A t \in Threads :
        /\ Returned(t, "update") /\ pre[t].ok =>
              LET X == LastCall(t).key
                  P == pre[t]
              IN /\ cache = Before(P.cache, X)
                 /\ deps = Before(P.deps, X)
                 /\ md[X]["A"] = MaxPrice
                 /\ \A k \in DOMAIN cache :
                       ServedIn(P.cache, P.deps, P.upd, k) => Served(k)
        /\ Returned(t, "compute") /\ pre[t].ok /\ Previous(t, "update")
              /\ log[t][1].key <= LastCall(t).key =>
              LET X == log[t][1].key
                  K == LastCall(t).key
              IN /\ LastCall(t).out = Val(FoldState(md, K))
                 /\ \A j \in X..K : execs[j] = pre[t].execs[j] + 1
                 /\ K \in DOMAIN cache /\ cache[K] = FoldState(md, K)

\* a date computed, an earlier date updated, the date computed again
C6_Witness ==
    \E t \in Threads :
        /\ Returned(t, "compute") /\ pre[t].ok /\ Previous(t, "update")
        /\ log[t][1].key < LastCall(t).key
        /\ pre[t].execs[LastCall(t).key] = 1
        /\ execs[LastCall(t).key] = 2
        /\ Seed \in DOMAIN pre[t].cache

\* get(K) came right after a compute_state(K) that returned a state
GetAfterCompute(t) ==
    /\ Returned(t, "get")
    /\ Previous(t, "compute")
    /\ log[t][1].key = LastCall(t).key
    /\ log[t][1].out.kind = "val"

C10_Idempotent ==
    \A t \in Threads :
        Returned(t, "compute") /\ LastCall(t).out.kind = "val" =>
            /\ fresh[LastCall(t).key].has
            /\ LastCall(t).out.val = fresh[LastCall(t).key].val

\* compute_state(K) returned twice in a row, the second time from a second
\* execution of the step of K
C10_Witness ==
    \E t \in Threads :
        /\ Returned(t, "compute") /\ Previous(t, "compute")
        /\ log[t][1].key = LastCall(t).key
        /\ LastCall(t).key > Seed
        /\ LastCall(t).out.kind = "val"
        /\ execs[LastCall(t).key] = 2


\* rule.py:119-205 run by one thread from the seed to k on the table m with
\* nothing cached: the state, or the exception of the first step that fails
RECURSIVE SingleThreaded(_, _)
SingleThreaded(m, k) ==
    IF k = Seed THEN Val(InitialState)
    ELSE IF ~HasPrev(k) THEN Raise("ScheduleError")
    ELSE LET p == SingleThreaded(m, Prev(k)) IN
         IF IsError(p) THEN p
         ELSE IF \E i \in 1..Len(Basket) :
                    Basket[i] \notin DOMAIN m[k] \/ Basket[i] \notin DOMAIN m[Prev(k)]
         THEN Raise("MarketDataError")
         ELSE IF ~HasNext(k) THEN Raise("ScheduleError")
         ELSE Val(StepState(p.val,
                            [i \in 1..Len(Basket) |-> m[k][Basket[i]]],
                            [i \in 1..Len(Basket) |-> m[Prev(k)][Basket[i]]],
                            IsLastDayOfMonth(k)))

(* C11: with a lock manager and no update of the data, every compute_state  *)
(* call of concurrently running threads, on any dates, returns what a       *)
(* single-threaded computation of its date returns, and threads asking for  *)
(* the same date get the same result.                                       *)
C11_SameAsSingleThreaded ==
    /\ \A t \in Threads :
          Returned(t, "compute") =>
              LastCall(t).out = SingleThreaded(md, LastCall(t).key)
    /\ \A t, u \in Threads :
          Returned(t, "compute") /\ Returned(u, "compute")
              /\ LastCall(t).key = LastCall(u).key => LastCall(t).out = LastCall(u).out

\* a call returned a state while another thread is inside the critical
\* section of a date of the same chain, which has been computed already
C11_Witness ==
    \E t, u \in Threads :
        /\ t # u
        /\ Returned(t, "compute")
        /\ LastCall(t).out.kind = "val"
        /\ InCompute(u)
        /\ \E j \in Keys : /\ Seed < j /\ j <= LastCall(t).key
                           /\ InSection(u, j)
                           /\ execs[j] = 2


-----------------------------------------------------------------------------
(* The base case.                                                           *)

\* the statements of _compute_state_unsafe after the base case's return:
\* calendar.prev, the recursive call, the md.get of either date
PastBaseCase == {"prev", "w_prev", "rd_cur", "rd_prev"}

\* C12: compute_state(seed) never reaches calendar.prev or md.get and never
\* works on another date; called on a store without a seed entry it returns
\* the initial state and leaves the seed entry stored with an empty
\* dependency set; and get(seed) returns an entry with an empty dependency
\* set whatever the registry of updated dates holds.
C12_BaseCase ==
    \A t \in Threads :
        /\ (InCompute(t) /\ stack[t][1].key = Seed) =>
               \A i \in 1..Len(stack[t]) :
                   /\ stack[t][i].key = Seed
                   /\ stack[t][i].op = "compute" => stack[t][i].pc \notin PastBaseCase
        /\ (/\ Returned(t, "compute")
            /\ LastCall(t).key = Seed
            /\ pre[t].ok
            /\ Seed \notin DOMAIN pre[t].cache) =>
               /\ LastCall(t).out = Val(InitialState)
               /\ Seed \in DOMAIN cache /\ cache[Seed] = InitialState
               /\ Seed \in DOMAIN deps /\ deps[Seed] = {}
               /\ execs[Seed] = pre[t].execs[Seed] + 1
        /\ (/\ Returned(t, "get")
            /\ LastCall(t).key = Seed
            /\ pre[t].ok
            /\ Seed \in DOMAIN pre[t].cache
            /\ Seed \in DOMAIN pre[t].deps
            /\ pre[t].deps[Seed] = {}) =>
               LastCall(t).out = Val(pre[t].cache[Seed])

\* get(seed) returns the seed entry right after an update has added a date
\* to the registry that already held the seed date
C12_Witness ==
    \E t \in Threads :
        /\ Returned(t, "get")
        /\ Len(log[t]) = 2
        /\ log[t][1].op = "update"
        /\ LastCall(t).key = Seed
        /\ LastCall(t).out = Val(InitialState)
        /\ pre[t].ok
        /\ pre[t].upd = {Seed, Seed + 1}
        /\ execs[Seed] = 1


-----------------------------------------------------------------------------
(* Failures of compute_state.                                               *)

\* C13: compute_state of a date before the seed raises ScheduleError; none
\* of its frames ever reaches a put, and when no other call ran meanwhile
\* the cache and the dependency map are what they were when it was called.
C13_BeforeSeed ==
    \A t \in Threads :
        /\ (InCompute(t) /\ stack[t][1].key < Seed) =>
               \A i \in 1..Len(stack[t]) :
                   /\ stack[t][i].op # "put"
                   /\ stack[t][i].key <= stack[t][1].key
        /\ (Returned(t, "compute") /\ LastCall(t).key < Seed) =>
               /\ LastCall(t).out = Raise("ScheduleError")
               /\ pre[t].ok => cache = pre[t].cache /\ deps = pre[t].deps

\* the date right before the seed, on a store that already holds entries:
\* the walk takes one step back before a date has no predecessor
C13_Witness ==
    \E t \in Threads :
        /\ Returned(t, "compute")
        /\ LastCall(t).key = Seed - 1
        /\ LastCall(t).out = Raise("ScheduleError")
        /\ pre[t].ok
        /\ DOMAIN pre[t].cache = {Seed, Seed + 1}
        /\ execs[Seed - 2] = 1


\* C14: when compute_state(K) has raised MarketDataError, that is the error
\* of the first missing close on the way from the seed to K, neither the
\* cache nor the dependency map has an entry for K, and once the call has
\* run alone every date in the cache is also in the dependency map and
\* holds the state computed for it.
C14_FailedNotStored ==
    \A t \in Threads :
        (Returned(t, "compute") /\ LastCall(t).out.kind = "MarketDataError") =>
            LET K == LastCall(t).key IN
            /\ LastCall(t).out = SingleThreaded(md, K)
            /\ K \notin DOMAIN cache
            /\ K \notin DOMAIN deps
            /\ pre[t].ok =>
                   /\ DOMAIN cache = DOMAIN deps
                   /\ \A k \in DOMAIN cache :
                          /\ Val(cache[k]) = SingleThreaded(md, k)
                          /\ k < K

\* the close at K is missing while the dates before K have theirs: the
\* call stored K's predecessors, then failed in the step for K
C14_Witness ==
    \E t \in Threads :
        /\ Returned(t, "compute")
        /\ LastCall(t).key = Seed + 2
        /\ LastCall(t).out = Raise("MarketDataError")
        /\ ~HasPrice(Seed + 2, Basket[1])
        /\ pre[t].ok
        /\ pre[t].cache = NoFn
        /\ DOMAIN cache = {Seed, Seed + 1}


-----------------------------------------------------------------------------
(* Locks on the exit paths.                                                 *)

\* Two threads on a strategy with a lock manager whose price table lacks a
\* close: compute_state raises ScheduleError before the seed and at the
\* calendar's last date, MarketDataError from the date of the missing close
\* on; an update's callback may raise out of the store's invalidate.
InitExit ==
    /\ lm = TRUE
    /\ upd \in {{}, {Seed + 1}}
    /\ todo = [t \in Threads |-> IF t = "t3" THEN 0 ELSE 1]
    /\ md = [k \in Calendar |->
               [f \in (IF k = Seed + 2 THEN Fields \ {Basket[1]} ELSE Fields) |-> 1]]
    /\ cache = NoFn
    /\ deps = NoFn
    /\ dateLocks = NoFn
    /\ invLock = Free
    /\ internalLock = Free
    /\ stack = [t \in Threads |-> <<>>]
    /\ ret = [t \in Threads |-> Pending]
    /\ log = [t \in Threads |-> <<>>]
    /\ execs = [k \in Keys |-> 0]
    /\ fresh = [k \in Keys |-> [has |-> FALSE, val |-> <<>>]]
    /\ pre = [t \in Threads |-> NoSnapshot]
    /\ caller = [t \in Threads |-> NoCallerSet]
    /\ iso = NoIso
    /\ limit = DefaultLimit

SpecExit == InitExit /\ [][NextRace]_vars

\* t is inside the `with` block of the invalidation lock
InInvalidation(t) ==
    \E i \in 1..Len(stack[t]) :
        stack[t][i].lk = "inv" /\ stack[t][i].pc # "acq"

-----------------------------------------------------------------------------
(* Invalidation.                                                            *)

\* C16: md.update, whose callback is the store's invalidate, returns
\* without an exception while the other thread runs compute_state.
C16_NeverRaises ==
    \A t \in Threads :
        (/\ Returned(t, "update")
         /\ \A u \in Threads \ {t} :
                /\ ~Idle(u) => stack[u][1].op = "compute"
                /\ \A i \in 1..Len(log[u]) : log[u][i].op = "compute") =>
            LastCall(t).out = None


-----------------------------------------------------------------------------
(* Termination.                                                             *)

\* The threads of SpecCompute under a scheduler that lets every thread that
\* can take a step take one eventually.
SpecComputeFair == SpecCompute /\ \A t \in Threads : WF_vars(ThreadStep(t))

\* the dates of the nested compute_state calls of t, outermost first
WalkOf(t) ==
    LET idx == {i \in 1..Len(stack[t]) : stack[t][i].op = "compute"}
        nth[n \in 0..Len(stack[t])] ==
            IF n = 0 THEN <<>>
            ELSE IF n \in idx THEN Append(nth[n - 1], stack[t][n]) ELSE nth[n - 1]
    IN nth[Len(stack[t])]

\* Each call of the walk is made by the call before it, which waits for it,
\* for the date preceding its own; a call for the seed, a call that got a
\* state from the store and a call for a date without predecessor make none.
WalkDecreases ==
    \A t \in Threads :
        LET w == WalkOf(t) IN
        \A i \in 1..Len(w) :
            /\ i < Len(w) => /\ w[i].pc = "w_prev"
                             /\ w[i].key # Seed
                             /\ HasPrev(w[i].key)
                             /\ w[i + 1].key < w[i].key
                             /\ w[i + 1].key = Max({c \in Calendar : c < w[i].key})
            /\ i = Len(w) => w[i].pc # "w_prev"

\* a compute_state that is over has returned a state or raised
ResultOrRaise ==
    \A t \in Threads :
        Returned(t, "compute") =>
            /\ ret[t] = LastCall(t).out
            /\ ret[t].kind \in {"val", "ScheduleError", "MarketDataError"}

\* C17: the walk of compute_state goes to an earlier date at every hop and
\* makes no hop from the seed, from a date served by the store or from a
\* date without predecessor; and under fair scheduling the compute_state
\* calls of all threads are over from some moment on (each thread makes
\* finitely many), each with a result or an exception.
C17_Terminates ==
    /\ [](WalkDecreases /\ ResultOrRaise)
    /\ <>[](\A t \in Threads : Idle(t) /\ (log[t] # <<>> => ret[t] # Pending))

\* one thread is three calls deep in its walk while the other waits for the
\* lock of a date of that walk
C17_Witness ==
    \E t, u \in Threads :
        /\ Len(WalkOf(t)) = 3
        /\ InCompute(u)
        /\ Blocked(u)
        /\ HolderOf(u) = t


-----------------------------------------------------------------------------
(* The lock manager's table of date locks.                                  *)

\* t acquires the lock of K, which was free, in acquire_date_lock
TakesLock(t, K) ==
    /\ At(t, Top(t).op, "acq") /\ Top(t).lk = "date" /\ Top(t).key = K
    /\ dateLocks[K] = Free
    /\ dateLocks'[K] = t

\* t, its holder, releases the lock of K at the end of its `with` block
DropsLock(t, K) ==
    /\ At(t, Top(t).op, "exit") /\ Top(t).lk = "date" /\ Top(t).key = K
    /\ dateLocks[K] = t
    /\ dateLocks'[K] = Free

\* t references K, which has no lock yet, and a free lock is made for it
FirstTouch(t, K) ==
    /\ At(t, Top(t).op, "getlock") /\ Top(t).key = K
    /\ K \notin DOMAIN dateLocks
    /\ dateLocks'[K] = Free

\* C18: a date that has a lock keeps it: no step removes a date from the
\* table or puts another lock in its place (the lock of a date changes only
\* by being acquired, when free, by a thread waiting for it, or released by
\* its holder); a date gets its lock from the first thread to reference it,
\* one date per step, and every thread past the lookup waits for or holds
\* the lock of the table.
C18_OneLockPerKey ==
    /\ [](\A t \in Threads : \A i \in 1..Len(stack[t]) :
             (stack[t][i].lk = "date" /\ stack[t][i].pc # "getlock") =>
                 /\ stack[t][i].key \in DOMAIN dateLocks
                 /\ stack[t][i].pc # "acq" => dateLocks[stack[t][i].key] = t)
    /\ [][/\ DOMAIN dateLocks \subseteq DOMAIN dateLocks'
          /\ \A K \in DOMAIN dateLocks :
                 dateLocks'[K] # dateLocks[K] =>
                     \E t \in Threads : TakesLock(t, K) \/ DropsLock(t, K)
          /\ \A K \in DOMAIN dateLocks' \ DOMAIN dateLocks :
                 /\ \E t \in Threads : FirstTouch(t, K)
                 /\ DOMAIN dateLocks' = DOMAIN dateLocks \cup {K}]_vars

\* two threads have referenced the same date before either acquired its
\* lock, the first references of that date: both wait for the one free lock
C18_Witness ==
    \E t, u \in Threads :
        /\ t # u
        /\ At(t, "compute", "acq") /\ At(u, "compute", "acq")
        /\ Len(stack[t]) = 1 /\ Len(stack[u]) = 1
        /\ Top(t).key = Top(u).key
        /\ DOMAIN dateLocks = {Top(t).key}
        /\ dateLocks[Top(t).key] = Free


-----------------------------------------------------------------------------
(* put, and the set its caller passed.                                      *)

\* the dates of a set of (date, ticker) dependencies
DatesOf(d) == {a[1] : a \in d}

\* the get that a thread made right after its put of the same date has
\* returned
GetAfterPut(t) ==
    /\ Returned(t, "get")
    /\ Len(log[t]) = 2
    /\ log[t][1].op = "put"
    /\ log[t][1].key = LastCall(t).key
    /\ caller[t].live
    /\ caller[t].key = LastCall(t).key
    /\ pre[t].ok

\* what get returns for an entry r stored with dependencies d
Expected(r, d, updated) == IF DatesOf(d) \cap updated = {} THEN Val(r) ELSE None

C20_IndependentCopy ==
    \A t \in Threads :
        /\ (Returned(t, "put") /\ caller[t].live /\ caller[t].val # caller[t].d) =>
               /\ caller[t].key \in DOMAIN deps
               /\ deps[caller[t].key] = caller[t].d
        /\ (GetAfterPut(t) /\ caller[t].val # caller[t].d) =>
               /\ pre[t].deps[caller[t].key] = caller[t].d
               /\ LastCall(t).out = Expected(caller[t].r, caller[t].d, pre[t].upd)

\* the caller's change of its set would have changed the validity of the
\* entry had the store held that set
C20_Witness ==
    \E t \in Threads :
        /\ GetAfterPut(t)
        /\ caller[t].val # caller[t].d
        /\ Expected(caller[t].r, caller[t].val, pre[t].upd)
               # Expected(caller[t].r, caller[t].d, pre[t].upd)
        /\ LastCall(t).out = Val(caller[t].r)


-----------------------------------------------------------------------------
(* clear.                                                                   *)

\* One thread makes two calls, each a get or a clear, on a filled store
\* (test_statestore.py:123-151 puts, clears, then gets).
NextClear ==
    \E t \in Threads :
        \/ \E k \in StoreDates : CallGet(t, k)
        \/ CallClear(t)
        \/ DateLockGetOrCreate(t)
        \/ AcquireDateLock(t)
        \/ ReleaseDateLock(t)
        \/ AcquireInternalLock(t)
        \/ ReleaseInternalLock(t)
        \/ GetSteps(t)
        \/ ClearSteps(t)

SpecClear == InitPut /\ [][NextClear]_vars

\* t is inside clear, from the call to the release of the internal lock
InClear(t) == ~Idle(t) /\ stack[t][1].op = "clear"

\* C21: when clear has returned, the cache and the dependency map are
\* empty, whatever they held and whether a get would have served it; the
\* get that follows returns None for every date; and no step of clear
\* changes the registry of updated dates, the table of date locks or a
\* stored price.
C21_Clear ==
    /\ [](\A t \in Threads :
             /\ Returned(t, "clear") => cache = NoFn /\ deps = NoFn
             /\ (Returned(t, "get") /\ Len(log[t]) = 2 /\ log[t][1].op = "clear") =>
                    LastCall(t).out = None)
    /\ [][\A t \in Threads :
             ((InClear(t) \/ InClear(t)') /\ stack'[t] # stack[t]) =>
                 /\ upd' = upd
                 /\ dateLocks' = dateLocks
                 /\ md' = md]_vars

\* clear has emptied a store from which a get under the date's lock had
\* just served an entry, with dates in the registry
C21_Witness ==
    \E t \in Threads :
        /\ Returned(t, "clear")
        /\ Len(log[t]) = 2
        /\ log[t][1].op = "get"
        /\ log[t][1].out.kind = "val"
        /\ pre[t].ok
        /\ Cardinality(DOMAIN pre[t].cache) = 3
        /\ upd # {}
        /\ DOMAIN dateLocks = {log[t][1].key}


-----------------------------------------------------------------------------
(* Stores and MarketData instances.                                         *)

\* the stores whose strategy was built on table m
StoresOn(m) == {s \in DOMAIN iso.store : MdOf(s[1]) = m}

\* C22: an update of date X in a MarketData instance calls invalidate once
\* on every store of a strategy built on that instance, the store a
\* set_lock_manager replaced included: such a store then has no entry for a
\* date >= X and keeps its entries for earlier dates; the update calls
\* invalidate on no other store, and the store of a strategy built on
\* another instance is after the update what it was before.
C22_CacheIsolation ==
    /\ [](iso.last.op = "update" =>
             \A s \in DOMAIN iso.store :
                 IF s \in StoresOn(iso.last.md)
                 THEN /\ iso.calls[s] = 1
                      /\ \A d \in DOMAIN iso.store[s].cache \cup DOMAIN iso.store[s].deps :
                             d < iso.last.x
                 ELSE iso.calls[s] = 0)
    /\ [][(iso'.last.op = "update" /\ iso' # iso) =>
             \A s \in DOMAIN iso.store :
                 IF s \in StoresOn(iso'.last.md)
                 THEN \A d \in DOMAIN iso.store[s].cache :
                          d < iso'.last.x =>
                              /\ d \in DOMAIN iso'.store[s].cache
                              /\ iso'.store[s].cache[d] = iso.store[s].cache[d]
                              /\ iso'.store[s].deps[d] = iso.store[s].deps[d]
                 ELSE iso'.store[s] = iso.store[s]]_vars

\* an update of the shared instance when every store, the replaced one
\* too, held an entry it covers: the store on the other instance still
\* holds its own
C22_Witness ==
    /\ iso.last.op = "update"
    /\ iso.last.md = "mA"
    /\ iso.last.x = Seed + 1
    /\ iso.last.hit = StoreIds \cap DOMAIN iso.store
    /\ Cardinality(StoresOn("mA")) = 3
    /\ \A s \in StoresOn("mA") : DOMAIN iso.store[s].cache = {Seed}
    /\ \A s \in StoresOn("mB") : DOMAIN iso.store[s].cache = {Seed, Seed + 1}


-----------------------------------------------------------------------------
(* The registry of updated dates.                                           *)

\* t makes the step that begins md.update(D, ...)
BeginsUpdate(t, D) ==
    /\ Idle(t)
    /\ stack'[t] # <<>>
    /\ stack'[t][1].op = "update"
    /\ stack'[t][1].key = D

\* t makes the step that is md.clear_updated_dates()
ClearsUpdatedDates(t) ==
    /\ Idle(t) /\ Idle(t)'
    /\ todo'[t] = todo[t] - 1
    /\ log'[t] # <<>>
    /\ log'[t][Len(log'[t])].op = "clear_updated_dates"

\* C23: md.update(D, ...) adds D to the registry and removes nothing from
\* it; clear_updated_dates empties it and changes no price; and every other
\* step, of compute_state, of get, of the engine's put, of the callback's
\* invalidate and of clear, leaves the registry as it is.
C23_RegistryMonotone ==
    [][\A t \in Threads :
          /\ \A D \in Calendar : BeginsUpdate(t, D) => upd' = upd \cup {D}
          /\ ClearsUpdatedDates(t) => upd' = {} /\ md' = md
          /\ (stack'[t] # stack[t]
              /\ ~ClearsUpdatedDates(t)
              /\ \A D \in Calendar : ~BeginsUpdate(t, D)) => upd' = upd]_vars

\* clear_updated_dates has emptied a registry of two dates, the second
\* added by an update to a registry that held the first; the close that
\* update wrote is still in the table
C23_Witness ==
    \E t \in Threads :
        /\ Returned(t, "clear_updated_dates")
        /\ Len(log[t]) = 2
        /\ log[t][1].op = "update"
        /\ pre[t].ok
        /\ pre[t].upd = {Seed, Seed + 1}
        /\ upd = {}
        /\ md[log[t][1].key][Basket[1]] = MaxPrice
        /\ execs[Seed] = 1


-----------------------------------------------------------------------------
(* get_states.                                                              *)

\* the range ends of the calls: dates of the calendar and a date after it
RangeEnds == (Seed - 1)..(LastKey + 1)

\* One thread calls get_states, or compute_state, once on a strategy as
\* constructed, whose table may lack the close of a date
\* (test_runner.py:28-215, test_error_handling.py:301-322).
InitRange ==
    /\ lm \in BOOLEAN
    /\ upd \in {{}, {Seed + 1}}
    /\ todo = [t \in Threads |-> IF t = "t1" THEN 1 ELSE 0]
    /\ \E gaps \in SUBSET {Seed + 2} :
          md = [k \in Calendar |->
                  [f \in (IF k \in gaps THEN Fields \ {Basket[1]} ELSE Fields) |-> 1]]
    /\ cache = NoFn
    /\ deps = NoFn
    /\ dateLocks = NoFn
    /\ invLock = Free
    /\ internalLock = Free
    /\ stack = [t \in Threads |-> <<>>]
    /\ ret = [t \in Threads |-> Pending]
    /\ log = [t \in Threads |-> <<>>]
    /\ execs = [k \in Keys |-> 0]
    /\ fresh = [k \in Keys |-> [has |-> FALSE, val |-> <<>>]]
    /\ pre = [t \in Threads |-> NoSnapshot]
    /\ caller = [t \in Threads |-> NoCallerSet]
    /\ iso = NoIso
    /\ limit = DefaultLimit

NextRange ==
    \E t \in Threads :
        \/ \E to_date \in RangeEnds :
              \E from_date \in {NoFromDate} \cup {FromDate(d) : d \in RangeEnds} :
                  CallGetStates(t, from_date, to_date)
        \/ \E k \in Keys : CallComputeState(t, k)
        \/ GetStatesNext(t)
        \/ DateLockGetOrCreate(t)
        \/ AcquireDateLock(t)
        \/ ReleaseDateLock(t)
        \/ AcquireInternalLock(t)
        \/ ReleaseInternalLock(t)
        \/ GetSteps(t)
        \/ PutSteps(t)
        \/ ComputeSteps(t)

SpecRange == InitRange /\ [][NextRange]_vars

\* the dates of [from, to] whose computation from the seed fails
Failing(S) == {c \in S : IsError(SingleThreaded(md, c))}

\* C24: get_states(from, to) returns, for the calendar's dates from from
\* (the seed date when from is None) to to, one entry each, in ascending
\* order of date, holding the state of the date; for an empty range it
\* returns the empty mapping and nothing is computed or stored; and when
\* compute_state fails for a date of the range it raises that date's error
\* (the first in date order) and returns no mapping.
C24_GetStates ==
    \A t \in Threads :
        Returned(t, "get_states") =>
            LET from_date == LastCall(t).key.from
                to_date == LastCall(t).key.to
                first == IF from_date.none THEN Seed ELSE from_date.date
                range == {c \in Calendar : first <= c /\ c <= to_date}
                out == LastCall(t).out
            IN /\ range = {} =>
                      /\ out = Val(<<>>)
                      /\ cache = NoFn
                      /\ \A k \in Keys : execs[k] = 0
               /\ Failing(range) # {} =>
                      out = SingleThreaded(md, Min(Failing(range)))
               /\ Failing(range) = {} =>
                      /\ out.kind = "val"
                      /\ Len(out.val) = Cardinality(range)
                      /\ \A i \in 1..Len(out.val) :
                             /\ out.val[i].date \in range
                             /\ Val(out.val[i].state) = SingleThreaded(md, out.val[i].date)
                             /\ \A j \in 1..Len(out.val) :
                                    i < j => out.val[i].date < out.val[j].date

\* a range of three dates from the default start has returned its three
\* states
C24_Witness ==
    \E t \in Threads :
        /\ Returned(t, "get_states")
        /\ LastCall(t).key.from.none
        /\ LastCall(t).key.to = Seed + 2
        /\ LastCall(t).out.kind = "val"
        /\ Len(LastCall(t).out.val) = 3
        /\ execs[Seed] = 1


-----------------------------------------------------------------------------
(* The order of the date locks.                                             *)

\* the dates whose lock t holds
HeldBy(t) == {K \in DOMAIN dateLocks : dateLocks[K] = t}

\* t is at acquire_date_lock for date K: looking the lock up or waiting
Requests(t, K) ==
    /\ ~Idle(t)
    /\ Top(t).lk = "date"
    /\ Top(t).pc \in {"getlock", "acq"}
    /\ Top(t).key = K

\* C25: the date locks a thread holds inside compute_state(K) are those of
\* K and of consecutive predecessors of K, without a gap; while it holds
\* some, the one lock it asks for is that of the date preceding the earliest
\* it holds, so it never asks for a lock it holds; holding none, it asks for
\* the lock of K.
C25_LockOrder ==
    \A t \in Threads :
        InCompute(t) =>
            LET H == HeldBy(t) IN
            /\ H # {} =>
                   /\ Max(H) = stack[t][1].key
                   /\ \A K \in H : K # Max(H) => NextDate(K) \in H
            /\ \A K \in Keys :
                   Requests(t, K) =>
                       /\ K \notin H
                       /\ K = IF H = {} THEN stack[t][1].key ELSE Prev(Min(H))

\* a thread that holds the locks of two consecutive dates waits for the
\* lock of the date before them, which the other thread holds
C25_Witness ==
    \E t, u \in Threads :
        /\ InCompute(t)
        /\ HeldBy(t) = {Seed + 1, Seed + 2}
        /\ Requests(t, Seed)
        /\ Top(t).pc = "acq"
        /\ HeldBy(u) = {Seed}


-----------------------------------------------------------------------------
(* The cached engine and the recomputation.                                 *)

\* C26: whatever compute_state, md.update, md.clear_updated_dates, get and
\* clear calls one thread has made, a compute_state(K) that returns a state
\* returns the state that the step function gives when it is applied from
\* the seed to K on the prices of the table as they are at the call.
C26_EqualsRecomputation ==
    \A t \in Threads :
        (Returned(t, "compute") /\ LastCall(t).out.kind = "val") =>
            /\ pre[t].ok
            /\ pre[t].md = md
            /\ LastCall(t).out.val = FoldState(pre[t].md, LastCall(t).key)

\* compute_state(K) has computed K a second time, after an update of the
\* seed date's close had removed every entry
C26_Witness ==
    \E t \in Threads :
        /\ Returned(t, "compute")
        /\ LastCall(t).key = Seed + 2
        /\ LastCall(t).out.kind = "val"
        /\ Len(log[t]) = 2
        /\ log[t][1].op = "update"
        /\ log[t][1].key = Seed
        /\ md[Seed][Basket[1]] = MaxPrice
        /\ execs[Seed + 2] = 2


-----------------------------------------------------------------------------
(* The sweep and the date locks.                                            *)

\* t is inside md.update, whose callback is the store's invalidate
InUpdate(t) == ~Idle(t) /\ stack[t][1].op = "update"

-----------------------------------------------------------------------------
(* Reads and the registry.                                                  *)

\* A thread reads a filled store, by get or by compute_state, or puts an
\* entry, while another updates a close, invalidates a date or clears the
\* store
\* (test_thread_safety_pystack.py:309-367 runs store operations from several
\* threads under a lock manager).  No date is in the registry at the start.
InitRead ==
    /\ lm = TRUE
    /\ upd = {}
    /\ todo = [t \in Threads |-> IF t = "t3" THEN 0 ELSE 1]
    /\ InitFilled

NextRead ==
    \E t \in Threads :
        \/ \E k \in StoreDates : t = "t1" /\ CallGet(t, k)
        \/ \E k \in StoreDates : t = "t1" /\ CallComputeState(t, k)
        \/ \E k \in StoreDates : \E e \in StoreEntries(k) :
               t = "t1" /\ CallPut(t, k, e.r, e.d)
        \/ \E x \in StoreDates : t = "t2" /\ CallUpdate(t, x, Basket[1], MaxPrice)
        \/ \E x \in StoreDates : t = "t2" /\ CallInvalidate(t, x)
        \/ t = "t2" /\ CallClear(t)
        \/ DateLockGetOrCreate(t)
        \/ AcquireDateLock(t)
        \/ ReleaseDateLock(t)
        \/ AcquireInvalidationLock(t)
        \/ ReleaseInvalidationLock(t)
        \/ AcquireInternalLock(t)
        \/ ReleaseInternalLock(t)
        \/ GetSteps(t)
        \/ PutSteps(t)
        \/ ComputeSteps(t)
        \/ InvalidateSteps(t)
        \/ ClearSteps(t)

SpecRead == InitRead /\ [][NextRead]_vars

\* t executes `return self._cache[target_date]` for an entry that is there
ReturnsCached(t) ==
    /\ At(t, "get", "g_ret")
    /\ stack'[t] # stack[t]
    /\ Top(t).key \in DOMAIN cache
    /\ Top(t).key \in DOMAIN deps

\* C28 as stated: when a read returns the cached state of K, no date of
\* the dependencies stored for K is in the registry at that moment.
C28_AsStated ==
    [][\A t \in Threads :
          ReturnsCached(t) => DatesOf(deps[Top(t).key]) \cap upd = {}]_vars

\* C28: when a read returns the cached state of K, no date of the
\* dependencies stored for K was in the registry when the validity check
\* took its copy of the registry; and when no update runs during the read,
\* none is in the registry when the read has returned.
C28_ValidAtCheck ==
    \A t \in Threads :
        /\ (At(t, "get", "g_ret") /\ Top(t).key \in DOMAIN deps) =>
               DatesOf(deps[Top(t).key]) \cap Top(t).snap = {}
        /\ (/\ Returned(t, "get") \/ Returned(t, "compute")
            /\ LastCall(t).out.kind = "val"
            /\ pre[t].ok
            /\ LastCall(t).key \in DOMAIN pre[t].cache
            /\ LastCall(t).out.val = pre[t].cache[LastCall(t).key]
            /\ execs = pre[t].execs) =>
               /\ LastCall(t).key \in DOMAIN deps
               /\ DatesOf(deps[LastCall(t).key]) \cap upd = {}

\* a read is about to return the cached state of a date whose entry was
\* valid when checked, an update having since put a date the entry depends
\* on into the registry
C28_Witness ==
    \E t, u \in Threads :
        /\ At(t, "get", "g_ret")
        /\ Top(t).key \in DOMAIN cache
        /\ Top(t).key \in DOMAIN deps
        /\ DatesOf(deps[Top(t).key]) \cap Top(t).snap = {}
        /\ DatesOf(deps[Top(t).key]) \cap upd # {}
        /\ InUpdate(u)
        /\ stack[t][1].op = "compute"


\* C29: under a lock manager, with update, invalidate and clear running
\* concurrently, a compute_state or a get that has ended returned a state or
\* None, or raised ScheduleError or MarketDataError.
C29_ErrorTaxonomy ==
    \A t \in Threads :
        (Returned(t, "get") \/ Returned(t, "compute")) =>
            LastCall(t).out.kind \in {"val", "none", "ScheduleError", "MarketDataError"}


\* the step is taken by thread t
Steps(t) == stack'[t] # stack[t]

\* the step inserts, overwrites or removes the cache entry or the
\* dependency-map entry of date K
Mutates(K) ==
    \/ (K \in DOMAIN cache) # (K \in DOMAIN cache')
    \/ K \in DOMAIN cache /\ K \in DOMAIN cache' /\ cache[K] # cache'[K]
    \/ (K \in DOMAIN deps) # (K \in DOMAIN deps')
    \/ K \in DOMAIN deps /\ K \in DOMAIN deps' /\ deps[K] # deps'[K]

-----------------------------------------------------------------------------
(* The two maps of the store.                                               *)

\* no store operation and no computation is in progress
NoOperation == \A t \in Threads : Idle(t)

\* C31: whenever no operation is in progress, the cache and the dependency
\* map have the same dates: no state is stored without a dependency set and
\* no dependency set without a state.
C31_SameKeys == NoOperation => DOMAIN cache = DOMAIN deps


-----------------------------------------------------------------------------
(* Updates at the same time.                                                *)

\* Two threads update a close each on a filled store under a lock manager;
\* nothing is computed (test_thread_safety_pystack.py:248-307 runs updates
\* from a thread of their own).
InitSweep ==
    /\ lm = TRUE
    /\ todo = [t \in Threads |-> IF t = "t3" THEN 0 ELSE 1]
    /\ InitFilled

NextSweep ==
    \E t \in Threads :
        \/ \E x \in StoreDates, f \in Fields : CallUpdate(t, x, f, MaxPrice)
        \/ AcquireInvalidationLock(t)
        \/ ReleaseInvalidationLock(t)
        \/ InvalidateSteps(t)

SpecSweep == InitSweep /\ [][NextSweep]_vars

\* t is inside _invalidate_unsafe
InSweep(t) ==
    /\ ~Idle(t)
    /\ Top(t).op = "invalidate"
    /\ Top(t).pc \notin {"getlock", "acq", "exit"}

\* C32: under a lock manager at most one thread is inside
\* _invalidate_unsafe, no sweep raises, and when two updates at dates X and
\* Y have both returned the store has no entry of a date >= min(X, Y).
C32_SweepsSerialized ==
    /\ \A t, u \in Threads : (InSweep(t) /\ InSweep(u)) => t = u
    /\ \A t \in Threads : InSweep(t) => invLock = t
    /\ \A t \in Threads : Returned(t, "update") => LastCall(t).out = None
    /\ (Returned("t1", "update") /\ Returned("t2", "update")) =>
           \A K \in (DOMAIN cache) \cup (DOMAIN deps) :
               /\ K < LastCall("t1").key
               /\ K < LastCall("t2").key

\* a thread is inside the sweep of its update, with entries to remove, while
\* the update of another date by another thread waits for the invalidation
\* lock
C32_Witness ==
    \E t, u \in Threads :
        /\ InSweep(t)
        /\ Top(t).pc = "i_del"
        /\ At(u, "invalidate", "acq")
        /\ Top(u).key < Top(t).key
        /\ \E K \in DOMAIN cache : K >= Top(u).key /\ K < Top(t).key


-----------------------------------------------------------------------------
(* How far an updated date reaches.                                         *)

\* compute_state(K) has returned a state twice in a row
ComputedTwice(t) ==
    /\ Returned(t, "compute")
    /\ Previous(t, "compute")
    /\ log[t][1].key = LastCall(t).key
    /\ log[t][1].out.kind = "val"
    /\ LastCall(t).out.kind = "val"
    /\ pre[t].ok

-----------------------------------------------------------------------------
(* What a computation leaves in the store.                                  *)

\* the dependency set the step of date J builds (rule.py:165-174)
StepDependencies(J) ==
    IF J = Seed THEN {} ELSE {<<J, Basket[i]>> : i \in 1..Len(Basket)}
                             \cup {<<Prev(J), Basket[i]>> : i \in 1..Len(Basket)}

-----------------------------------------------------------------------------
(* The cache hit.                                                           *)

\* when t, the only thread running, called compute_state(K), the store held
\* an entry of K none of whose dependency dates was in the registry
HitCall(t) ==
    /\ pre[t].ok
    /\ \/ ~Idle(t) /\ stack[t][1].op = "compute"
       \/ Returned(t, "compute")
    /\ LET K == IF Idle(t) THEN LastCall(t).key ELSE stack[t][1].key IN
       /\ K \in DOMAIN pre[t].cache
       /\ K \in DOMAIN pre[t].deps
       /\ DatesOf(pre[t].deps[K]) \cap pre[t].upd = {}

\* C35: a compute_state(K) that finds a valid entry of K returns the state of
\* that entry; from the call to the return no step is executed, no close is
\* read, the date before K is neither looked up nor locked nor computed, and
\* the cache, the dependency map, the registry and the closes stay as they
\* were.
C35_HitIsTerminal ==
    \A t \in Threads :
        HitCall(t) =>
            /\ cache = pre[t].cache
            /\ deps = pre[t].deps
            /\ upd = pre[t].upd
            /\ md = pre[t].md
            /\ execs = pre[t].execs
            /\ ~Idle(t) =>
                   /\ Len(stack[t]) <= 2
                   /\ stack[t][1].pc \in {"getlock", "acq", "w_get", "exit"}
                   /\ \A i \in 1..Len(stack[t]) :
                          /\ stack[t][i].key = stack[t][1].key
                          /\ stack[t][i].op \in {"compute", "get"}
                   /\ HeldBy(t) \subseteq {stack[t][1].key}
            /\ Idle(t) =>
                   /\ LastCall(t).out = Val(pre[t].cache[LastCall(t).key])
                   /\ HeldBy(t) = {}

\* a compute_state of a date after the seed date has returned the state the
\* store held for it, under a lock manager
C35_Witness ==
    \E t \in Threads :
        /\ HitCall(t)
        /\ lm
        /\ Returned(t, "compute")
        /\ LastCall(t).key > Seed
        /\ LastCall(t).out = Val(cache[LastCall(t).key])
        /\ execs[LastCall(t).key] = 1


-----------------------------------------------------------------------------
(* The depth of the recursion.                                              *)

\* One thread computes on an empty store, with or without a lock manager,
\* the interpreter's recursion limit set below the length of the calendar
\* (test_recursion.py:279-364 sets sys.setrecursionlimit before the call).
\* The thread makes a second call on what the first left.
InitDeep ==
    /\ lm \in BOOLEAN
    /\ limit \in 1..(LastKey - Seed)
    /\ upd \in {{}, {Seed + 1}}
    /\ todo = [t \in Threads |-> IF t = "t1" THEN 2 ELSE 0]
    /\ md = [k \in Calendar |-> [f \in Fields |-> 1]]
    /\ cache = NoFn
    /\ deps = NoFn
    /\ dateLocks = NoFn
    /\ invLock = Free
    /\ internalLock = Free
    /\ stack = [t \in Threads |-> <<>>]
    /\ ret = [t \in Threads |-> Pending]
    /\ log = [t \in Threads |-> <<>>]
    /\ execs = [k \in Keys |-> 0]
    /\ fresh = [k \in Keys |-> [has |-> FALSE, val |-> <<>>]]
    /\ pre = [t \in Threads |-> NoSnapshot]
    /\ caller = [t \in Threads |-> NoCallerSet]
    /\ iso = NoIso

NextDeep ==
    \E t \in Threads :
        \/ \E k \in Seed..LastKey : CallComputeState(t, k)
        \/ DateLockGetOrCreate(t)
        \/ AcquireDateLock(t)
        \/ ReleaseDateLock(t)
        \/ AcquireInternalLock(t)
        \/ ReleaseInternalLock(t)
        \/ GetSteps(t)
        \/ PutSteps(t)
        \/ ComputeSteps(t)

SpecDeep == InitDeep /\ [][NextDeep]_vars

\* the compute_state frames of t, outermost first
ComputeFramesOf(t) ==
    SelectSeq(stack[t], LAMBDA fr : fr.op = "compute")

\* the calls compute_state(K) nests on an empty store: one per date from K
\* down to the seed date
Hops(K) == K - Seed + 1

\* t called compute_state on an empty store
OnEmptyStore(t) == pre[t].ok /\ pre[t].cache = NoFn /\ pre[t].deps = NoFn

\* C36: on an empty store the calls nested by compute_state(K) are those of
\* K, the date before it, and so on, one per date and never more than the
\* recursion limit, each of them under a lock manager holding the lock of
\* its date; when the dates from K down to the seed date are more than the
\* limit the call raises RecursionError, no entry is stored and no lock is
\* left held; when they are not, the call does not raise RecursionError.
C36_RecursionDepth ==
    \A t \in Threads :
        /\ (~Idle(t) /\ stack[t][1].op = "compute" /\ OnEmptyStore(t)) =>
               LET fs == ComputeFramesOf(t) IN
               /\ Len(fs) <= limit
               /\ Len(fs) <= Hops(fs[1].key)
               /\ \A i \in 1..Len(fs) : fs[i].key = fs[1].key - (i - 1)
               /\ lm => \A i \in 1..Len(fs) :
                            \/ fs[i].pc \in {"getlock", "acq"}
                            \/ fs[i].key \in HeldBy(t)
               /\ Cardinality(HeldBy(t)) <= Len(fs)
        /\ (Returned(t, "compute") /\ OnEmptyStore(t)) =>
               /\ Hops(LastCall(t).key) > limit =>
                      /\ LastCall(t).out = Raise("RecursionError")
                      /\ cache = NoFn
                      /\ deps = NoFn
               /\ Hops(LastCall(t).key) <= limit =>
                      LastCall(t).out.kind # "RecursionError"
               /\ HeldBy(t) = {}
               /\ invLock = Free /\ internalLock = Free

\* under a lock manager and a limit of two calls or more, a compute_state
\* of a date further from the seed date than the limit has raised
\* RecursionError after taking the locks of as many dates as the limit;
\* nothing is stored and every lock is free
C36_Witness ==
    \E t \in Threads :
        /\ lm
        /\ limit >= 2
        /\ Returned(t, "compute")
        /\ OnEmptyStore(t)
        /\ Hops(LastCall(t).key) > limit
        /\ LastCall(t).out = Raise("RecursionError")
        /\ cache = NoFn
        /\ Cardinality(DOMAIN dateLocks) = limit
        /\ \A K \in DOMAIN dateLocks : dateLocks[K] = Free


-----------------------------------------------------------------------------
(* The last date of the calendar.                                           *)

\* the closes of the basket are there at every date from the seed date on
AllCloses ==
    \A k \in Seed..LastKey : \A i \in 1..Len(Basket) : HasPrice(k, Basket[i])

\* C37: on a store that starts empty, compute_state of the last date of the
\* calendar raises, and stores nothing for that date; when no close of the
\* basket is missing it raises ScheduleError, after the state of every date
\* from the seed date to the date before the last has been stored; and
\* get_states over a range that contains the last date raises and returns
\* no mapping.
C37_LastKey ==
    \A t \in Threads :
        /\ (Returned(t, "compute") /\ LastCall(t).key = LastKey) =>
               /\ IsError(LastCall(t).out)
               /\ LastKey \notin DOMAIN cache
               /\ LastKey \notin DOMAIN deps
               /\ AllCloses =>
                      /\ LastCall(t).out = Raise("ScheduleError")
                      /\ DOMAIN cache = Seed..Prev(LastKey)
                      /\ \A J \in Seed..Prev(LastKey) : cache[J] = FoldState(md, J)
                      /\ execs[LastKey] = 1
        /\ (/\ Returned(t, "get_states")
            /\ LastCall(t).key.to >= LastKey
            /\ LastCall(t).key.from.none \/ LastCall(t).key.from.date <= LastKey) =>
               /\ IsError(LastCall(t).out)
               /\ LastKey \notin DOMAIN cache
               /\ AllCloses => LastCall(t).out = Raise("ScheduleError")

\* compute_state of the last date has raised ScheduleError under a lock
\* manager, the states of the dates before it stored and every lock free
C37_Witness ==
    \E t \in Threads :
        /\ lm
        /\ Returned(t, "compute")
        /\ LastCall(t).key = LastKey
        /\ LastCall(t).out = Raise("ScheduleError")
        /\ DOMAIN cache = Seed..Prev(LastKey)
        /\ DOMAIN deps = Seed..Prev(LastKey)
        /\ HeldBy(t) = {}
        /\ execs[LastKey] = 1


-----------------------------------------------------------------------------
(* invalidate twice.                                                        *)

\* what the store may hold at a date: nothing, an entry, a state without a
\* dependency set, or a dependency set without a state
Holdings(k) ==
    {[r |-> {}, d |-> {}]}
    \cup {[r |-> {e.r}, d |-> {e.d}] : e \in StoreEntries(k)}
    \cup {[r |-> {MadeUpState(k, 1)}, d |-> {}], [r |-> {}, d |-> {{<<k, "A">>}}]}

\* A store of any content, with or without a lock manager, nothing running
\* (the registry is set by the specification); iso keeps a second store of the same content, which no call touches.
\* One thread calls invalidate twice on it (test_statestore.py:75-98).
InitTwin ==
    /\ lm \in BOOLEAN
    /\ md = [k \in Calendar |-> [f \in Fields |-> 1]]
    /\ \E h \in [StoreDates -> UNION {Holdings(k) : k \in StoreDates}] :
          /\ \A k \in StoreDates : h[k] \in Holdings(k)
          /\ cache = [k \in {j \in StoreDates : h[j].r # {}} |->
                        CHOOSE r \in h[k].r : TRUE]
          /\ deps = [k \in {j \in StoreDates : h[j].d # {}} |->
                       CHOOSE d \in h[k].d : TRUE]
    /\ iso = [cache |-> cache, deps |-> deps]
    /\ dateLocks = NoFn
    /\ invLock = Free
    /\ internalLock = Free
    /\ stack = [t \in Threads |-> <<>>]
    /\ ret = [t \in Threads |-> Pending]
    /\ log = [t \in Threads |-> <<>>]
    /\ execs = [k \in Keys |-> 0]
    /\ fresh = [k \in Keys |-> [has |-> FALSE, val |-> <<>>]]
    /\ pre = [t \in Threads |-> NoSnapshot]
    /\ caller = [t \in Threads |-> NoCallerSet]
    /\ limit = DefaultLimit

InitTwice ==
    /\ todo = [t \in Threads |-> IF t = "t1" THEN 2 ELSE 0]
    /\ upd = {}
    /\ InitTwin

NextTwice ==
    \E t \in Threads :
        \/ \E x \in StoreDates : CallInvalidate(t, x)
        \/ AcquireInvalidationLock(t)
        \/ ReleaseInvalidationLock(t)
        \/ AcquireInternalLock(t)
        \/ ReleaseInternalLock(t)
        \/ InvalidateSteps(t)

SpecTwice == InitTwice /\ [][NextTwice]_vars

\* the store as a record
Store == [cache |-> cache, deps |-> deps]

\* C38: after invalidate(X) and then invalidate(Y), the store is the one
\* that invalidate(Y) and then invalidate(X) leave, which is the one that a
\* single invalidate of the earlier of X and Y leaves; and when Y = X the
\* second call changes nothing.
C38_InvalidateTwice ==
    \A t \in Threads :
        (Returned(t, "invalidate") /\ Previous(t, "invalidate")) =>
            LET X == log[t][1].key
                Y == log[t][2].key
            IN /\ log[t][1].out = None /\ log[t][2].out = None
               /\ Store = IsoInvalidate(IsoInvalidate(iso, Y), X)
               /\ Store = IsoInvalidate(iso, Min({X, Y}))
               /\ X = Y => Store = [cache |-> pre[t].cache, deps |-> pre[t].deps]
               /\ \A d \in DOMAIN cache : d < X /\ d < Y /\ cache[d] = iso.cache[d]

\* invalidate of a date and then of an earlier date have returned on a
\* store that held the states of three dates; the second call removed the
\* entries the first had left from the earlier date on
C38_Witness ==
    \E t \in Threads :
        /\ Returned(t, "invalidate") /\ Previous(t, "invalidate")
        /\ log[t][2].key < log[t][1].key
        /\ DOMAIN iso.cache = StoreDates
        /\ DOMAIN pre[t].cache = {d \in StoreDates : d < log[t][1].key}
        /\ DOMAIN cache = {d \in StoreDates : d < log[t][2].key}
        /\ DOMAIN cache # DOMAIN pre[t].cache
        /\ cache # NoFn


-----------------------------------------------------------------------------
(* Reads while an update is under way.                                      *)

\* A thread updates a close (test_statestore.py:56-72); once the close is
\* written and its date is in the registry (marketdata.py:106-110, one step
\* under the lock of MarketData), another thread calls get.  The registry
\* is not cleared.
InitWindow ==
    /\ todo = [t \in Threads |-> IF t = "t3" THEN 0 ELSE 1]
    /\ upd = {}
    /\ InitTwin

NextWindow ==
    \E t \in Threads :
        \/ \E x \in StoreDates : t = "t2" /\ CallUpdate(t, x, Basket[1], MaxPrice)
        \/ \E k \in StoreDates : t = "t1" /\ upd # {} /\ CallGet(t, k)
        \/ DateLockGetOrCreate(t)
        \/ AcquireDateLock(t)
        \/ ReleaseDateLock(t)
        \/ AcquireInvalidationLock(t)
        \/ ReleaseInvalidationLock(t)
        \/ AcquireInternalLock(t)
        \/ ReleaseInternalLock(t)
        \/ GetSteps(t)
        \/ InvalidateSteps(t)

SpecWindow == InitWindow /\ [][NextWindow]_vars

\* the store held, before the update, an entry of K whose dependency set
\* names a date that is now in the registry
NamesUpdated(K) ==
    /\ K \in DOMAIN iso.cache
    /\ K \in DOMAIN iso.deps
    /\ DatesOf(iso.deps[K]) \cap upd # {}

\* C39: a get(K) called once the updated close of X can be read returns
\* None when the dependency set stored for K names X, whether the sweep of
\* the update has run, is running or has yet to run.
C39_UpdateWindow ==
    \A t \in Threads :
        (Returned(t, "get") /\ NamesUpdated(LastCall(t).key)) =>
            LastCall(t).out = None


-----------------------------------------------------------------------------
(* The store without a lock manager.                                        *)

\* the state and the dependency set that put(k, ...) is called with here;
\* no entry of the initial content equals them
PutArgs(k) == [r |-> MadeUpState(k, 3), d |-> {<<k, "B">>}]

\* the dates that the calls name
AtomicDates == {Seed, Seed + 1}

\* No lock manager.  On a store of any content at the first two dates,
\* thread t1 calls one store operation, get, put, invalidate or clear, and
\* thread t2 calls another or calls compute_state (test_statestore.py:16-118
\* run by two threads); the registry is empty or names the seed date.
InitAtomic ==
    /\ todo = [t \in Threads |-> IF t = "t3" THEN 0 ELSE 1]
    /\ upd \in {{}, {Seed}}
    /\ InitTwin
    /\ lm = FALSE
    /\ DOMAIN cache \cup DOMAIN deps \subseteq AtomicDates

NextAtomic ==
    \E t \in Threads :
        \/ \E k \in AtomicDates : CallGet(t, k)
        \/ \E k \in AtomicDates : CallPut(t, k, PutArgs(k).r, PutArgs(k).d)
        \/ \E x \in AtomicDates : CallInvalidate(t, x)
        \/ CallClear(t)
        \/ \E k \in AtomicDates : t = "t2" /\ CallComputeState(t, k)
        \/ AcquireInternalLock(t)
        \/ ReleaseInternalLock(t)
        \/ GetSteps(t)
        \/ PutSteps(t)
        \/ InvalidateSteps(t)
        \/ ClearSteps(t)
        \/ ComputeSteps(t)

SpecAtomic == InitAtomic /\ [][NextAtomic]_vars

\* statestore.py:69-78 run alone on the store st: the store afterwards and
\* the outcome
SeqGet(st, k) ==
    IF k \in DOMAIN st.cache /\ IsoIsValid(st, upd, k)
    THEN [st |-> st, out |-> Val(st.cache[k])]
    ELSE [st |-> IsoEvict(st, k), out |-> None]

\* a call of get, put, invalidate or clear run alone on the store st
SeqCall(st, c) ==
    IF c.op = "get" THEN SeqGet(st, c.key)
    ELSE IF c.op = "put"
    THEN [st |-> [cache |-> DictSet(st.cache, c.key, PutArgs(c.key).r),
                  deps |-> DictSet(st.deps, c.key, PutArgs(c.key).d)],
          out |-> None]
    ELSE IF c.op = "invalidate"
    THEN [st |-> IsoInvalidate(st, c.key), out |-> None]
    ELSE [st |-> EmptyStore, out |-> None]

\* the calls of t and then of u, run one after the other on the initial
\* content, leave the store as it is now and return what t and u got
InOrder(t, u) ==
    LET a == SeqCall(iso, LastCall(t))
        b == SeqCall(a.st, LastCall(u))
    IN /\ LastCall(t).out = a.out
       /\ LastCall(u).out = b.out
       /\ Store = b.st

\* the thread is inside the statements of a store operation that takes the
\* internal lock
InLockedBody(t) == ~Idle(t) /\ Top(t).lk = "internal" /\ Top(t).pc # "acq"

====
